---- MODULE Spec2Model ----
(***************************************************************************)
(* CLO generator: mapping load + override merge, cascading selection,      *)
(* statement synthesis and the session record list.                        *)
(*                                                                         *)
(* The repository holds several drafts of the same engine.  Each draft is  *)
(* one value of the variable `variant`; an action belongs to one draft and *)
(* is translated from that draft's handler:                                *)
(*   "static"  src/static/js/advanced_clo_generator.js                     *)
(*   "react"   src/src/components/AdvancedCLOGenerator.jsx                 *)
(*   "v3"      src/static/js/advanced_clo_generator_v3.js (lines 216-409)  *)
(*   "v2"      src/unnamed/part_000                                        *)
(*   "v1"      src/unnamed/part_004                                        *)
(*   "linker"  src/unnamed/part_002 with src/src/hooks/usePEOPLOIEG.js     *)
(*                                                                         *)
(* A JSON object is a function from its keys to their values; a key the    *)
(* object does not have is a key outside DOMAIN.  A JSON array is a        *)
(* sequence.  Text is a sequence of string pieces (its concatenation is    *)
(* the text), so that a clause of a statement is a run of pieces.          *)
(* Object.keys is modelled for documents whose keys are written in         *)
(* catalogue order (IEG1, IEG2, ...).                                      *)
(***************************************************************************)
EXTENDS Naturals, Sequences, FiniteSets, TLC

VARIABLES
  variant,        \* which draft of the generator is running
  fetched,        \* what the server answers for the base mapping document
  stored,         \* localStorage.USMMapping
  phase,          \* "loading" | "ready" | "failed"
  mapping,        \* the merged mapping document in use (mapping / MAP)
  optIEG,         \* v3: options of the attribute dropdown
  selIEG,         \* v3: iegSel.value
  optPEO,         \* options of the objective dropdown (without the placeholder)
  selectedPEO,    \* selectedPEO / peoSel.value / al_peo.value
  optPLO,         \* v3: options of the outcome dropdown
  selPLO,         \* v3: ploSel.value
  selectedPLOs,   \* selected outcome ids, in order
  selectedIEGs,   \* attributes derived from the selected objective
  level,          \* levelSelect.value / al_level.value / levelSel.value
  optBloom,       \* options of the Bloom dropdown
  bloom,          \* bloomSelect.value / bloomSel.value / state.bloomLevel
  optVerb,        \* candidate verb list shown for the Bloom level
  verb,           \* verbInput.value / customVerb / verbSel.value
  course,         \* courseInput.value
  assessment,     \* react, v1: assessmentMethods
  cloText,        \* cloArea.value / cloText: the preview text
  generatedList,  \* generatedListState / generatedList: the session records
  shown,          \* v2: what al_output shows; v3: the statement texts shown
  pending,        \* v3: requests in flight, each with the handler's captured values
  loadLog,        \* what the load wrote to the console and to the page
  exported,       \* the files handed to the browser by the last export click
  alerted         \* the message of the last alert() of an export handler

vars == <<variant, fetched, stored, phase, mapping, optIEG, selIEG, optPEO,
          selectedPEO, optPLO, selPLO, selectedPLOs, selectedIEGs, level,
          optBloom, bloom, optVerb, verb, course, assessment, cloText,
          generatedList,
          shown, pending, loadLog, exported, alerted>>

(***************************************************************************)
(* Bounds of the model                                                     *)
(***************************************************************************)
\* the longest list a Save or a bulk run is modelled on: the handlers have
\* no limit of their own
MaxRecords == 3
\* the shorter limit of the sessions that run many controls side by side
SessionRecords == 2
MaxAppend == 1
MaxPending == 1

(***************************************************************************)
(* Catalogues and program constants                                        *)
(***************************************************************************)
EmptyMap == [k \in {} |-> k]

Levels == <<"Diploma", "Degree", "Master", "PhD">>

IEGOrder == <<"IEG1", "IEG2", "IEG3", "IEG4", "IEG5">>

PEOOrder == <<"PEO1", "PEO2", "PEO3", "PEO4", "PEO5">>

BLOOM_VERBS ==
  [Remember   |-> <<"list", "name", "recall", "define">>,
   Understand |-> <<"explain", "describe", "summarize", "interpret">>,
   Apply      |-> <<"apply", "demonstrate", "use", "execute">>,
   Analyze    |-> <<"analyze", "compare", "differentiate", "organize">>,
   Evaluate   |-> <<"evaluate", "judge", "critique", "assess">>,
   Create     |-> <<"design", "construct", "compose", "formulate">>]

BloomOrder == <<"Remember", "Understand", "Apply", "Analyze", "Evaluate", "Create">>

ASSESSMENT_SUGGESTIONS ==
  [PLO1  |-> <<"Written exam", "Open-book exam", "Quiz">>,
   PLO2  |-> <<"Critical review assignment", "Journal critique">>,
   PLO3  |-> <<"Practical test", "Lab report", "OSCE">>,
   PLO4  |-> <<"Peer-assessment", "Group project">>,
   PLO5  |-> <<"Presentation", "Oral exam", "Poster">>,
   PLO6  |-> <<"Digital portfolio", "Data analysis assignment">>,
   PLO7  |-> <<"Problem set", "Calculation test">>,
   PLO8  |-> <<"Leadership project", "Team-based assignment">>,
   PLO9  |-> <<"Reflective journal", "Learning log">>,
   PLO10 |-> <<"Business plan", "Entrepreneurship pitch">>,
   PLO11 |-> <<"Professional conduct assessment", "Case study">>]

(***************************************************************************)
(* Inputs: the documents the server may hold, the overrides an editor may  *)
(* have persisted, and what the operator may type or pick.                 *)
(***************************************************************************)
DocFull ==
  [IEGtoPEO      |-> ("IEG1" :> <<"PEO1">>) @@ ("IEG2" :> <<"PEO1", "PEO2">>),
   PEOtoPLO      |-> ("PEO1" :> <<"PLO1", "PLO2">>) @@ ("PEO2" :> <<"PLO3">>),
   PEOstatements |-> ("Degree" :> ("PEO1" :> "Apply broad knowledge.")),
   PLOstatements |-> ("Degree" :> ("PLO1" :> "Apply knowledge.")),
   PLOtoVBE      |-> ("PLO1" :> "Ethics"),
   PLOIndicators |-> ("PLO1" :> "Exam score"),
   SCmapping     |-> ("PLO1" :> "SC4")]

DocBare ==
  [iegs     |-> <<"IEG1", "IEG3", "IEG5">>,
   IEGtoPEO |-> ("IEG1" :> <<"PEO4">>) @@ ("IEG3" :> <<"PEO3", "PEO1">>),
   PEOtoPLO |-> ("PEO1" :> <<"PLO2", "PLO1">>) @@ ("PEO3" :> <<>>)]

FetchResults ==
  {[ok |-> TRUE, doc |-> d] : d \in {DocFull, DocBare}}
    \cup {[ok |-> FALSE, doc |-> EmptyMap]}

OverridePartial == [PEOtoPLO |-> ("PEO2" :> <<"PLO3", "PLO1">>)]

OverrideEmptyEntry ==
  [PEOtoPLO |-> ("PEO1" :> <<"PLO2", "PLO1">>) @@ ("PEO3" :> <<>>)]

OverrideEmptyTable ==
  [IEGtoPEO  |-> EmptyMap,
   SCmapping |-> ("PLO2" :> "SC9")]

\* an override for the React component: level-independent outcome statements,
\* and no attribute mapped to any objective
OverrideStatements ==
  [IEGtoPEO      |-> EmptyMap,
   PLOstatements |-> ("PLO1" :> "Apply knowledge.")]

\* an override for the React component whose PLOtoVBE names a sub-competency.
\* An entry of that table is a string or an object with the fields SC and
\* VBE; the component is the one reader that tells the two apart (typeof), and
\* in its overrides a string s is written [string |-> s] and an object by its
\* fields
OverrideSC ==
  [PEOtoPLO |-> ("PEO1" :> <<"PLO1", "PLO2">>),
   PLOtoVBE |-> ("PLO1" :> [SC |-> "SC4", VBE |-> "Ethics"])
                  @@ ("PLO2" :> [string |-> "Integrity"])]

StoredValues ==
  {[kind |-> "none", doc |-> EmptyMap],
   [kind |-> "malformed", doc |-> EmptyMap],
   [kind |-> "doc", doc |-> OverridePartial],
   [kind |-> "doc", doc |-> OverrideEmptyEntry],
   [kind |-> "doc", doc |-> OverrideEmptyTable]}

LevelInputs == {"Degree", "Master"}

BloomInputs == {"Apply", "Create"}

VerbInputs == {"", "design"}

CourseInputs == {"[Course Name]", "CS101"}

BulkInputs == {<<>>, <<"CS101", "CS102">>}

TypedTexts == {<<"draft">>}

(***************************************************************************)
(* Helpers                                                                 *)
(***************************************************************************)
Has(obj, k) == k \in DOMAIN obj

Range(s) == {s[i] : i \in 1..Len(s)}

Includes(s, x) == \E i \in 1..Len(s) : s[i] = x

\* Object.keys(obj) for an object keyed by ids of `order`
KeysIn(order, obj) == SelectSeq(order, LAMBDA k : k \in DOMAIN obj)

RECURSIVE Flatten(_)
Flatten(ss) == IF ss = <<>> THEN <<>> ELSE Head(ss) \o Flatten(Tail(ss))

\* items.join(sep) for a list of texts
RECURSIVE Join(_, _)
Join(items, sep) ==
  IF items = <<>> THEN <<>>
  ELSE IF Len(items) = 1 THEN items[1]
  ELSE items[1] \o <<sep>> \o Join(Tail(items), sep)

\* Array.from(new Set(xs)): first occurrences, in order
RECURSIVE Dedupe(_)
Dedupe(xs) ==
  IF xs = <<>> THEN <<>>
  ELSE LET r == Dedupe(SubSeq(xs, 1, Len(xs) - 1))
           x == xs[Len(xs)]
       IN IF Includes(r, x) THEN r ELSE Append(r, x)

Slice(xs, n) == SubSeq(xs, 1, IF Len(xs) < n THEN Len(xs) ELSE n)

IsBlank(piece) == piece \in {"", " ", "\n"}

\* String.prototype.trim on a text
RECURSIVE Trim(_)
Trim(t) ==
  IF t = <<>> THEN <<>>
  ELSE IF IsBlank(Head(t)) THEN Trim(Tail(t))
  ELSE IF IsBlank(t[Len(t)]) THEN Trim(SubSeq(t, 1, Len(t) - 1))
  ELSE t

\* a string as a text ("" is the empty text)
Txt(s) == IF s = "" THEN <<>> ELSE <<s>>

MapSeq(xs, F(_)) == [i \in 1..Len(xs) |-> F(xs[i])]

OrStr(a, b) == IF a # "" THEN a ELSE b

\* mapping = null
Null == ("null" :> TRUE)

IsNull(m) == Has(m, "null")

(***************************************************************************)
(* static: loadMapping, the overlay of localStorage.USMMapping             *)
(***************************************************************************)
PlainTables == {"IEGtoPEO", "PEOtoPLO"}

DefaultedTables ==
  {"PLOstatements", "PEOstatements", "PLOtoVBE", "PLOIndicators", "SCmapping"}

Tables == PlainTables \cup DefaultedTables

\* Overlay with the default taking precedence over the fetched table
Overlay_defaultFirst(json, parsed) ==
  LET keys == DOMAIN json \cup (Tables \cap DOMAIN parsed) \cup DefaultedTables
  IN [t \in keys |->
        IF t \in Tables /\ Has(parsed, t) THEN parsed[t]
        ELSE IF t \in DefaultedTables THEN EmptyMap
        ELSE json[t]]

\* final.T = parsed.T || final.T [|| {}] for every table T; the value of a
\* table is an object, which is truthy even when it has no keys
Overlay(json, parsed) ==
  LET keys == DOMAIN json \cup (Tables \cap DOMAIN parsed) \cup DefaultedTables
  IN [t \in keys |->
        IF t \in Tables /\ Has(parsed, t) THEN parsed[t]
        ELSE IF Has(json, t) THEN json[t]
        ELSE EmptyMap]

\* the merge taking from the override only its tables that have a key
loadMapping_nonEmpty(json, saved) ==
  IF saved.kind = "doc"
  THEN Overlay(json, [t \in {u \in DOMAIN saved.doc : saved.doc[u] # EmptyMap}
                        |-> saved.doc[t]])
  ELSE IF saved.kind = "none" THEN Overlay(json, EmptyMap)
  ELSE json

\* the merged document loadMapping assigns to `mapping`
loadMapping(json, saved) ==
  IF saved.kind = "doc" THEN Overlay(json, saved.doc)
  ELSE IF saved.kind = "none" THEN Overlay(json, EmptyMap)
  ELSE json     \* JSON.parse threw: caught, `final` is the copy of json as fetched

\* populatePEOSelect: the options after the placeholder
populatePEOSelect(m) ==
  IF IsNull(m) \/ ~Has(m, "PEOtoPLO") THEN <<>> ELSE KeysIn(PEOOrder, m.PEOtoPLO)

(***************************************************************************)
(* static: lookups                                                         *)
(***************************************************************************)
Lookup(table, key) ==
  IF ~IsNull(mapping) /\ Has(mapping, table) /\ Has(mapping[table], key)
  THEN mapping[table][key] ELSE ""

getSC(plo) == Lookup("SCmapping", plo)

getVBE(plo) == Lookup("PLOtoVBE", plo)

getIndicator(plo) == Lookup("PLOIndicators", plo)

\* m.T?.[lvl]?.[id] || ""
Scoped(m, table, lvl, id) ==
  IF Has(m, table) /\ Has(m[table], lvl) /\ Has(m[table][lvl], id)
  THEN m[table][lvl][id] ELSE ""

\* m.T?.[id] || "" for the level-independent shape
Flat(m, table, id) ==
  IF Has(m, table) /\ Has(m[table], id)
  THEN m[table][id] ELSE ""

getPEOStatement(peo, lvl) ==
  IF IsNull(mapping) THEN "" ELSE Scoped(mapping, "PEOstatements", lvl, peo)

\* the objective-change handler's two derivations
derivePLOs(m, peo) ==
  IF ~IsNull(m) /\ Has(m, "PEOtoPLO") /\ Has(m.PEOtoPLO, peo)
  THEN m.PEOtoPLO[peo] ELSE <<>>

deriveIEGs(m, peo) ==
  IF ~Has(m, "IEGtoPEO") THEN <<>>
  ELSE SelectSeq(KeysIn(IEGOrder, m.IEGtoPEO),
                 LAMBDA ieg : Includes(m.IEGtoPEO[ieg], peo))

\* renderAssessmentSuggestions: the suggestion buttons shown
renderAssessmentSuggestions(plos) ==
  Slice(Dedupe(Flatten(MapSeq(plos,
          LAMBDA p : IF Has(ASSESSMENT_SUGGESTIONS, p)
                     THEN ASSESSMENT_SUGGESTIONS[p] ELSE <<>>))), 6)

(***************************************************************************)
(* static: generateCLO                                                     *)
(***************************************************************************)
\* the guard of generateCLO: alert and return ""
GenerateRefused == selectedPLOs = <<>>

\* line 359 reads `level`, which is declared by `const` on line 364: the read
\* is in the temporal dead zone and throws a ReferenceError.  The optional
\* chain mapping.PLOstatements?.[level] evaluates `level` only when
\* mapping.PLOstatements is neither null nor undefined.
GenerateThrows == ~GenerateRefused /\ Has(mapping, "PLOstatements")

resolveVerb(v, b) ==
  IF Trim(Txt(v)) # <<>> THEN Trim(Txt(v))[1]
  ELSE IF Has(BLOOM_VERBS, b) THEN BLOOM_VERBS[b][1]
  ELSE "demonstrate"

ploWithSC(plos) ==
  Join(MapSeq(plos, LAMBDA p : IF getSC(p) # "" THEN <<p, " (SC: ", getSC(p), ")">>
                                ELSE <<p>>), ", ")

\* the text generateCLO builds
generateCLO(courseLabel) ==
  LET lvl == OrStr(level, "Degree")
      plostmts == IF Has(mapping, "PLOstatements")
                  THEN SelectSeq(MapSeq(selectedPLOs,
                         LAMBDA p : Scoped(mapping, "PLOstatements", lvl, p)),
                         LAMBDA s : s # "")
                  ELSE <<>>
      plostmtText == IF plostmts # <<>>
                     THEN <<"PLO statements: ">> \o Join(MapSeq(plostmts, Txt), "; ")
                     ELSE <<>>
      vbe == Dedupe(SelectSeq(MapSeq(selectedPLOs, getVBE), LAMBDA s : s # ""))
      vbedomains == Join(MapSeq(vbe, Txt), ", ")
      indicators ==
        Join(MapSeq(selectedPLOs,
               LAMBDA p : <<p, ": ", OrStr(getIndicator(p), "(no indicator set)")>>),
             "; ")
      iegs == Join(MapSeq(selectedIEGs, Txt), ", ")
  IN Trim(<<"Upon successful completion of ", courseLabel,
            ", students will be able to ", resolveVerb(verb, bloom),
            " competencies related to ">>
          \o ploWithSC(selectedPLOs) \o <<". ">> \o plostmtText
          \o <<" This aligns to ", OrStr(selectedPEO, "the programme PEO(s)"),
               " and develops graduate attributes: ">>
          \o (IF iegs # <<>> THEN iegs ELSE <<"N/A">>)
          \o <<". VBE: ">> \o (IF vbedomains # <<>> THEN vbedomains ELSE <<"N/A">>)
          \o <<". Indicators: ">> \o indicators \o <<".">>)

(***************************************************************************)
(* static: saveGenerated                                                   *)
(***************************************************************************)
SaveRefused(clo) == Trim(clo) = <<>>

\* the item saveGenerated pushes
savedItem(courseLabel, clo) ==
  [course     |-> OrStr(courseLabel, OrStr(course, "[Course Name]")),
   peo        |-> selectedPEO,
   plos       |-> selectedPLOs,
   sc         |-> MapSeq(selectedPLOs, getSC),
   vbe        |-> MapSeq(selectedPLOs, getVBE),
   indicators |-> MapSeq(selectedPLOs, getIndicator),
   clo        |-> Trim(clo),
   savedAt    |-> "now"]

\* bulkBtn: rows.forEach(r => { generateCLO(r); saveGenerated(r); }) as a fold
\* over the preview text and the list; a throw ends the loop
RECURSIVE bulkRows(_, _, _)
bulkRows(rows, clo, list) ==
  IF rows = <<>> THEN [clo |-> clo, list |-> list, threw |-> FALSE]
  ELSE IF GenerateThrows THEN [clo |-> clo, list |-> list, threw |-> TRUE]
  ELSE LET r == Head(rows)
           c1 == IF GenerateRefused THEN clo ELSE generateCLO(r)
       IN IF SaveRefused(c1) THEN bulkRows(Tail(rows), c1, list)
          ELSE bulkRows(Tail(rows), <<>>, Append(list, savedItem(r, c1)))

(***************************************************************************)
(* Frames                                                                  *)
(***************************************************************************)
envVars == <<variant, fetched, stored, loadLog, exported, alerted>>

v3Vars == <<optIEG, selIEG, optPLO, selPLO, pending, assessment>>

selVars == <<selectedPEO, selectedPLOs, selectedIEGs>>

(***************************************************************************)
(* static: the initial load                                                *)
(***************************************************************************)
\* the initial load whose catch writes to the console only
StaticLoad_silent ==
  /\ variant = "static" /\ phase = "loading"
  /\ IF fetched.ok
     THEN /\ mapping' = loadMapping(fetched.doc, stored)
          /\ optPEO' = populatePEOSelect(mapping')
          /\ optBloom' = BloomOrder
          /\ bloom' = "Apply"
          /\ phase' = "ready"
          \* loadMapping's catch around the override: console.warn
          /\ loadLog' = IF stored.kind = "malformed"
                        THEN << [to |-> "console", text |-> "USMMapping parse error:"] >>
                        ELSE << >>
     ELSE /\ phase' = "failed"
          /\ loadLog' =
               << [to |-> "console", text |-> "Failed to initialize CLO generator:"] >>
          /\ UNCHANGED <<mapping, optPEO, optBloom, bloom>>
  /\ UNCHANGED <<variant, fetched, stored, exported, alerted, v3Vars, selVars, level, optVerb, verb, course,
                 cloText, generatedList, shown>>

\* the initial load: loadMapping().then(...).catch(...)
StaticLoad ==
  /\ variant = "static" /\ phase = "loading"
  /\ IF fetched.ok
     THEN /\ mapping' = loadMapping(fetched.doc, stored)
          /\ optPEO' = populatePEOSelect(mapping')
          /\ optBloom' = BloomOrder
          /\ bloom' = "Apply"
          /\ phase' = "ready"
          \* loadMapping's catch around the override: console.warn
          /\ loadLog' = IF stored.kind = "malformed"
                        THEN << [to |-> "console", text |-> "USMMapping parse error:"] >>
                        ELSE << >>
     ELSE /\ phase' = "failed"
          \* console.error, and one line appended to the page
          /\ loadLog' =
               << [to |-> "console", text |-> "Failed to initialize CLO generator:"],
                  [to |-> "page",
                   text |-> "Could not load configuration. Check /static/data/peo_plo_ieg.json"] >>
          /\ UNCHANGED <<mapping, optPEO, optBloom, bloom>>
  /\ UNCHANGED <<variant, fetched, stored, exported, alerted, v3Vars, selVars, level, optVerb, verb, course,
                 cloText, generatedList, shown>>

\* an objective handler that reads the override again on every change
StaticPeoChange_reload(p) ==
  /\ variant = "static"
  /\ p \in Range(optPEO) \cup {""} /\ p # selectedPEO /\ optPEO # <<>>
  /\ selectedPEO' = p
  /\ mapping' = loadMapping(fetched.doc, stored)
  /\ selectedPLOs' = derivePLOs(mapping', p)
  /\ selectedIEGs' = deriveIEGs(mapping', p)
  /\ UNCHANGED <<envVars, v3Vars, phase, optPEO, level, optBloom, bloom,
                 optVerb, verb, course, cloText, generatedList, shown>>

(***************************************************************************)
(* static: event handlers                                                  *)
(***************************************************************************)
\* peoSelect change
StaticPeoChange(p) ==
  /\ variant = "static"
  /\ p \in Range(optPEO) \cup {""} /\ p # selectedPEO /\ optPEO # <<>>
  /\ selectedPEO' = p
  /\ selectedPLOs' = derivePLOs(mapping, p)
  /\ selectedIEGs' = deriveIEGs(mapping, p)
  /\ UNCHANGED <<envVars, v3Vars, phase, mapping, optPEO, level, optBloom, bloom,
                 optVerb, verb, course, cloText, generatedList, shown>>

\* bloomSelect change: bloomLevel = e.target.value
StaticBloomChange(b) ==
  /\ variant = "static"
  /\ Includes(optBloom, b) /\ b # bloom
  /\ bloom' = b
  /\ UNCHANGED <<envVars, v3Vars, selVars, phase, mapping, optPEO, level, optBloom,
                 optVerb, verb, course, cloText, generatedList, shown>>

\* levelSelect has no listener: the element's value changes, nothing else
StaticLevelChange(l) ==
  /\ variant = "static"
  /\ Includes(Levels, l) /\ l # level
  /\ level' = l
  /\ UNCHANGED <<envVars, v3Vars, selVars, phase, mapping, optPEO, optBloom, bloom,
                 optVerb, verb, course, cloText, generatedList, shown>>

\* typing in verbInput
StaticVerbInput(v) ==
  /\ variant = "static" /\ v # verb
  /\ verb' = v
  /\ UNCHANGED <<envVars, v3Vars, selVars, phase, mapping, optPEO, level, optBloom,
                 bloom, optVerb, course, cloText, generatedList, shown>>

\* typing in courseInput
StaticCourseInput(c) ==
  /\ variant = "static" /\ c # course
  /\ course' = c
  /\ UNCHANGED <<envVars, v3Vars, selVars, phase, mapping, optPEO, level, optBloom,
                 bloom, optVerb, verb, cloText, generatedList, shown>>

\* typing in cloArea, an editable textarea
StaticEditPreview(t) ==
  /\ variant = "static" /\ t # cloText
  /\ cloText' = t
  /\ UNCHANGED <<envVars, v3Vars, selVars, phase, mapping, optPEO, level, optBloom,
                 bloom, optVerb, verb, course, generatedList, shown>>

\* click on the i-th assessment suggestion button; the preview takes at most
\* MaxAppend methods
StaticAssessClick(i) ==
  /\ variant = "static" /\ phase = "ready"
  /\ i \in 1..Len(renderAssessmentSuggestions(selectedPLOs))
  /\ Cardinality({k \in 1..Len(cloText) : cloText[k] = "Assessment: "}) < MaxAppend
  /\ cloText' = cloText \o (IF cloText # <<>> THEN <<"\n">> ELSE <<>>)
                        \o <<"Assessment: ", renderAssessmentSuggestions(selectedPLOs)[i]>>
  /\ UNCHANGED <<envVars, v3Vars, selVars, phase, mapping, optPEO, level, optBloom,
                 bloom, optVerb, verb, course, generatedList, shown>>

\* genBtn click
StaticGenerate ==
  /\ variant = "static"
  /\ IF GenerateRefused \/ GenerateThrows THEN UNCHANGED cloText
     ELSE cloText' = generateCLO(OrStr(course, "[Course Name]"))
  /\ UNCHANGED <<envVars, v3Vars, selVars, phase, mapping, optPEO, level, optBloom,
                 bloom, optVerb, verb, course, generatedList, shown>>

\* a Save that leaves the statement in the preview
StaticSave_keep ==
  /\ variant = "static"
  /\ Len(generatedList) < MaxRecords
  /\ IF SaveRefused(cloText)
     THEN UNCHANGED generatedList
     ELSE generatedList' =
            Append(generatedList, savedItem(OrStr(course, "[Course Name]"), cloText))
  /\ UNCHANGED <<envVars, v3Vars, selVars, phase, mapping, optPEO, level, optBloom,
                 bloom, optVerb, verb, course, cloText, shown>>

\* saveBtn click
StaticSave ==
  /\ variant = "static"
  /\ Len(generatedList) < MaxRecords
  /\ IF SaveRefused(cloText)
     THEN UNCHANGED <<cloText, generatedList>>
     ELSE /\ generatedList' =
               Append(generatedList, savedItem(OrStr(course, "[Course Name]"), cloText))
          /\ cloText' = <<>>
  /\ UNCHANGED <<envVars, v3Vars, selVars, phase, mapping, optPEO, level, optBloom,
                 bloom, optVerb, verb, course, shown>>

\* bulkBtn click
StaticBulk(rows) ==
  /\ variant = "static"
  /\ Len(generatedList) + Len(rows) <= MaxRecords
  /\ IF rows = <<>>
     THEN UNCHANGED <<cloText, generatedList>>
     ELSE LET r == bulkRows(rows, cloText, generatedList)
          IN /\ cloText' = r.clo
             /\ generatedList' = r.list
  /\ UNCHANGED <<envVars, v3Vars, selVars, phase, mapping, optPEO, level, optBloom,
                 bloom, optVerb, verb, course, shown>>

Remove(list, i) == SubSeq(list, 1, i - 1) \o SubSeq(list, i + 1, Len(list))

\* a Delete button that removes the last record whatever its row
StaticDelete_last(i) ==
  /\ variant = "static"
  /\ i \in 1..Len(generatedList)
  /\ generatedList' = SubSeq(generatedList, 1, Len(generatedList) - 1)
  /\ UNCHANGED <<envVars, v3Vars, selVars, phase, mapping, optPEO, level, optBloom,
                 bloom, optVerb, verb, course, cloText, shown>>

\* Delete button of row idx: generatedListState.splice(idx, 1)
StaticDelete(i) ==
  /\ variant = "static"
  /\ i \in 1..Len(generatedList)
  /\ generatedList' = Remove(generatedList, i)
  /\ UNCHANGED <<envVars, v3Vars, selVars, phase, mapping, optPEO, level, optBloom,
                 bloom, optVerb, verb, course, cloText, shown>>

\* clearBtn click, with the operator's answer to confirm()
StaticClearAll(yes) ==
  /\ variant = "static"
  /\ generatedList' = IF yes THEN <<>> ELSE generatedList
  /\ UNCHANGED <<envVars, v3Vars, selVars, phase, mapping, optPEO, level, optBloom,
                 bloom, optVerb, verb, course, cloText, shown>>

(***************************************************************************)
(* static: export                                                          *)
(***************************************************************************)
\* new Date().toISOString().slice(0, 10)
fmtDateShort == "today"

\* JSON.stringify(v, null, 2): the encoded value, kept apart from v itself
stringify(v) == [json |-> v]

\* the rows numbered by the index of the array, from 0
toRows_index(list) ==
  [i \in 1..Len(list) |->
     [No         |-> i - 1,
      Course     |-> Txt(list[i].course),
      PEO        |-> Txt(list[i].peo),
      PLOs       |-> Join(MapSeq(list[i].plos, Txt), "; "),
      SC         |-> Join(MapSeq(list[i].sc, Txt), "; "),
      VBE        |-> Join(MapSeq(list[i].vbe, Txt), "; "),
      Indicators |-> Join(MapSeq(list[i].indicators, Txt), "; "),
      CLO        |-> list[i].clo,
      SavedAt    |-> Txt(list[i].savedAt)]]

\* the rows exportCSV builds from the list
toRows(list) ==
  [i \in 1..Len(list) |->
     [No         |-> i,
      Course     |-> Txt(list[i].course),
      PEO        |-> Txt(list[i].peo),
      PLOs       |-> Join(MapSeq(list[i].plos, Txt), "; "),
      SC         |-> Join(MapSeq(list[i].sc, Txt), "; "),
      VBE        |-> Join(MapSeq(list[i].vbe, Txt), "; "),
      Indicators |-> Join(MapSeq(list[i].indicators, Txt), "; "),
      CLO        |-> list[i].clo,
      SavedAt    |-> Txt(list[i].savedAt)]]

\* the text of the file: a header line of the keys of rows[0], then a line
\* per row; esc puts a cell in double quotes and doubles each double quote in
\* it (String(n) of a row number is its digit)
arrayToCSV(rows) ==
  IF rows = <<>> THEN <<>>
  ELSE LET cols == <<"No", "Course", "PEO", "PLOs", "SC", "VBE", "Indicators",
                     "CLO", "SavedAt">>
           digits == <<"1", "2", "3", "4", "5", "6", "7", "8", "9">>
           esc(cell) ==
             <<"\"">> \o [i \in 1..Len(cell) |->
                            IF cell[i] = "\"" THEN "\"\"" ELSE cell[i]]
                     \o <<"\"">>
           cell(r, c) == esc(IF c = "No" THEN <<digits[r.No]>> ELSE r[c])
           header == Join([j \in 1..Len(cols) |-> esc(<<cols[j]>>)], ",")
           line(r) == Join([j \in 1..Len(cols) |-> cell(r, cols[j])], ",")
       IN header \o <<"\n">> \o Join([i \in 1..Len(rows) |-> line(rows[i])], "\n")

\* exportCsvBtn click
StaticExportCSV ==
  /\ variant = "static"
  /\ UNCHANGED <<variant, fetched, stored, loadLog, v3Vars, selVars, phase, mapping,
                 optPEO, level, optBloom, bloom, optVerb, verb, course, cloText,
                 generatedList, shown>>
  /\ IF generatedList = <<>>
     THEN exported' = <<>> /\ alerted' = "Nothing to export"
     ELSE /\ exported' = << [name    |-> <<"generated_clos_", fmtDateShort, ".csv">>,
                             mime    |-> "text/csv",
                             content |-> arrayToCSV(toRows(generatedList))] >>
          /\ alerted' = ""

\* exportJsonBtn click
StaticExportJSON ==
  /\ variant = "static"
  /\ IF generatedList = <<>>
     THEN exported' = <<>> /\ alerted' = "Nothing to export"
     ELSE /\ exported' = << [name    |-> <<"generated_clos_", fmtDateShort, ".json">>,
                             mime    |-> "application/json",
                             content |-> stringify(generatedList)] >>
          /\ alerted' = ""
  /\ UNCHANGED <<variant, fetched, stored, loadLog, v3Vars, selVars, phase, mapping,
                 optPEO, level, optBloom, bloom, optVerb, verb, course, cloText,
                 generatedList, shown>>

\* loading and the selection controls
StaticSelect ==
  \/ StaticLoad
  \/ \E p \in Range(PEOOrder) \cup {""} : StaticPeoChange(p)
  \/ \E b \in BloomInputs : StaticBloomChange(b)
  \/ \E l \in LevelInputs : StaticLevelChange(l)
  \/ \E v \in VerbInputs : StaticVerbInput(v)
  \/ \E c \in CourseInputs : StaticCourseInput(c)

\* the preview and the session list, the two export buttons apart
StaticSession ==
  \/ \E t \in TypedTexts : StaticEditPreview(t)
  \/ \E i \in 1..MaxAppend : StaticAssessClick(i)
  \/ StaticGenerate
  \/ Len(generatedList) < SessionRecords /\ StaticSave
  \/ \E rows \in BulkInputs :
       Len(generatedList) + Len(rows) <= SessionRecords /\ StaticBulk(rows)
  \/ \E i \in 1..MaxRecords : StaticDelete(i)
  \/ \E yes \in BOOLEAN : StaticClearAll(yes)

(***************************************************************************)
(* react: usePEOPLOIEG (the hook in AdvancedCLOGenerator.jsx) builds the   *)
(* mapping from the module defaults and localStorage; nothing is fetched   *)
(***************************************************************************)
IEG ==
  [IEG1 |-> "Knowledge & Professional Skills",
   IEG2 |-> "Values, Ethics & Humanity",
   IEG3 |-> "Socio-Entrepreneurship & Sustainability",
   IEG4 |-> "Communication",
   IEG5 |-> "Leadership, Teamwork & Lifelong Learning"]

defaultIEGtoPEO ==
  [IEG1 |-> <<"PEO1">>, IEG2 |-> <<"PEO2">>, IEG3 |-> <<"PEO3">>,
   IEG4 |-> <<"PEO4">>, IEG5 |-> <<"PEO5">>]

defaultPEOtoPLO ==
  [PEO1 |-> <<"PLO1", "PLO2", "PLO3", "PLO6", "PLO7">>,
   PEO2 |-> <<"PLO11">>,
   PEO3 |-> <<"PLO10", "PLO9">>,
   PEO4 |-> <<"PLO5">>,
   PEO5 |-> <<"PLO8", "PLO4", "PLO9">>]

EmptyByLevel == [l \in Range(Levels) |-> EmptyMap]

\* setMapping({...}) of the hook; saved.kind = "malformed" never gets here
usePEOPLOIEG(saved) ==
  LET parsed == IF saved.kind = "doc" THEN saved.doc ELSE EmptyMap
      or(t, dflt) == IF Has(parsed, t) THEN parsed[t] ELSE dflt
  IN [IEG           |-> IEG,
      IEGtoPEO      |-> or("IEGtoPEO", defaultIEGtoPEO),
      PEOtoPLO      |-> or("PEOtoPLO", defaultPEOtoPLO),
      PEOstatements |-> or("PEOstatements", EmptyByLevel),
      PLOstatements |-> or("PLOstatements", EmptyMap),
      PLOtoVBE      |-> or("PLOtoVBE", EmptyMap),
      PLOIndicators |-> or("PLOIndicators", EmptyMap)]

R_ASSESSMENT_SUGGESTIONS ==
  [PLO1  |-> <<"Written exam", "Quiz">>,
   PLO2  |-> <<"Critical review">>,
   PLO3  |-> <<"Practical test", "OSCE">>,
   PLO4  |-> <<"Group project", "Peer assessment">>,
   PLO5  |-> <<"Presentation", "Oral exam">>,
   PLO6  |-> <<"Digital portfolio">>,
   PLO7  |-> <<"Calculation test">>,
   PLO8  |-> <<"Team-based assignment">>,
   PLO9  |-> <<"Business plan", "Pitch">>,
   PLO10 |-> <<"Professional ethics assessment">>,
   PLO11 |-> <<"Leadership project">>]

\* useEffect [selectedPLOs]
R_suggest(plos) ==
  Slice(Dedupe(Flatten(MapSeq(plos,
          LAMBDA p : IF Has(R_ASSESSMENT_SUGGESTIONS, p)
                     THEN R_ASSESSMENT_SUGGESTIONS[p] ELSE <<>>))), 5)

\* useEffect [mapping, selectedPEO]: the selected outcomes
R_derivePLOs(m, peo) ==
  IF IsNull(m) \/ peo = "" THEN <<>>
  ELSE IF Has(m, "PEOtoPLO") /\ Has(m.PEOtoPLO, peo) THEN m.PEOtoPLO[peo]
  ELSE <<>>

\* useEffect [mapping, selectedPEO]: the attributes (mapping[peo].IEG and
\* mapping.PLOtoIEG are not keys of the hook's mapping)
R_deriveIEGs(m, peo) ==
  IF IsNull(m) \/ peo = "" THEN <<>> ELSE deriveIEGs(m, peo)

\* getSCfromMapping: "" without a mapping, without an entry and for an entry
\* that is a string; for an object its SC, or "" when it has none
getSCfromMapping(m, plo) ==
  IF IsNull(m) \/ ~Has(m, "PLOtoVBE") \/ ~Has(m.PLOtoVBE, plo) THEN ""
  ELSE LET v == m.PLOtoVBE[plo]
       IN IF Has(v, "string") THEN ""
          ELSE IF Has(v, "SC") THEN v.SC ELSE ""

\* generateCLO returns "" without setting the preview
R_GenerateRefused == selectedPEO = "" /\ selectedPLOs = <<>>

\* the verb with no look at the candidates of the Bloom level
R_resolveVerb_fallback(v, b) == IF v # "" THEN v ELSE "demonstrate"

R_resolveVerb(v, b) ==
  IF v # "" THEN v
  ELSE IF Has(BLOOM_VERBS, b) /\ BLOOM_VERBS[b] # <<>> THEN BLOOM_VERBS[b][1]
  ELSE "demonstrate"

R_generateCLO(courseLabel) ==
  LET PLOs == Join(MapSeq(selectedPLOs,
                LAMBDA p : IF getSCfromMapping(mapping, p) # ""
                           THEN <<p, " (SC: ", getSCfromMapping(mapping, p), ")">>
                           ELSE <<p>>), ", ")
      IEGs == Join(MapSeq(selectedIEGs, Txt), ", ")
      ploStatements == SelectSeq(MapSeq(selectedPLOs,
                         LAMBDA p : Flat(mapping, "PLOstatements", p)),
                         LAMBDA x : x # "")
      ploStatementText == IF ploStatements # <<>>
                          THEN <<" PLO statements: ">>
                               \o Join(MapSeq(ploStatements, Txt), "; ") \o <<".">>
                          ELSE <<>>
      assessmentText == IF assessment # <<>>
                        THEN <<" Recommended assessment methods: ">>
                             \o Join(MapSeq(assessment, Txt), ", ") \o <<".">>
                        ELSE <<>>
  IN <<"Upon successful completion of ", courseLabel,
       ", the student will be able to ", R_resolveVerb(verb, bloom),
       " competencies related to ">> \o PLOs \o <<".">> \o ploStatementText
     \o <<" This aligns to ", OrStr(selectedPEO, "the programme PEO(s)"),
          " and develops graduate attributes: ">>
     \o (IF IEGs # <<>> THEN IEGs ELSE <<"N/A">>) \o <<".">> \o assessmentText

\* BLOOM_VERBS[b][0], or undefined (here "")
firstVerb(b) == IF Has(BLOOM_VERBS, b) /\ BLOOM_VERBS[b] # <<>> THEN BLOOM_VERBS[b][1] ELSE ""

\* the item saveGenerated appends
R_savedItem ==
  [course     |-> course,
   peo        |-> selectedPEO,
   plos       |-> selectedPLOs,
   iegs       |-> selectedIEGs,
   bloom      |-> bloom,
   verb       |-> OrStr(verb, firstVerb(bloom)),
   assessment |-> assessment,
   clo        |-> cloText,
   timestamp  |-> "now"]

\* the item bulkGenerate builds for one label
R_bulkItem(label) ==
  [course    |-> label,
   peo       |-> selectedPEO,
   plos      |-> selectedPLOs,
   iegs      |-> selectedIEGs,
   clo       |-> IF R_GenerateRefused THEN <<>> ELSE R_generateCLO(label),
   timestamp |-> "now"]

\* the hook's effect
ReactLoad ==
  /\ variant = "react" /\ phase = "loading"
  /\ IF stored.kind = "malformed"
     THEN phase' = "failed" /\ UNCHANGED <<mapping, optPEO>>   \* JSON.parse throws in the effect
     ELSE /\ mapping' = usePEOPLOIEG(stored)
          /\ optPEO' = KeysIn(PEOOrder, mapping'.PEOtoPLO)
          /\ phase' = "ready"
  /\ UNCHANGED <<envVars, v3Vars, selVars, level, optBloom, bloom, optVerb, verb,
                 course, cloText, generatedList, shown>>

\* the objective <select> onChange, with the two effects it triggers
ReactPeoChange(p) ==
  /\ variant = "react" /\ phase = "ready"
  /\ p \in Range(optPEO) \cup {""} /\ p # selectedPEO
  /\ selectedPEO' = p
  /\ selectedPLOs' = R_derivePLOs(mapping, p)
  /\ selectedIEGs' = R_deriveIEGs(mapping, p)
  /\ assessment' = R_suggest(selectedPLOs')
  /\ UNCHANGED <<envVars, optIEG, selIEG, optPLO, selPLO, pending, phase, mapping,
                 optPEO, level, optBloom, bloom, optVerb, verb, course, cloText,
                 generatedList, shown>>

ReactBloomChange(b) ==
  /\ variant = "react" /\ phase = "ready"
  /\ Includes(optBloom, b) /\ b # bloom
  /\ bloom' = b
  /\ UNCHANGED <<envVars, v3Vars, selVars, phase, mapping, optPEO, level, optBloom,
                 optVerb, verb, course, cloText, generatedList, shown>>

ReactVerbInput(v) ==
  /\ variant = "react" /\ phase = "ready" /\ v # verb
  /\ verb' = v
  /\ UNCHANGED <<envVars, v3Vars, selVars, phase, mapping, optPEO, level, optBloom,
                 bloom, optVerb, course, cloText, generatedList, shown>>

\* a click on the button of assessment method i removes it from the list
ReactAssessClick(i) ==
  /\ variant = "react" /\ phase = "ready"
  /\ i \in 1..Len(assessment)
  /\ assessment' = Remove(assessment, i)
  /\ UNCHANGED <<envVars, optIEG, selIEG, optPLO, selPLO, pending, selVars, phase,
                 mapping, optPEO, level, optBloom, bloom, optVerb, verb, course,
                 cloText, generatedList, shown>>

ReactEditPreview(t) ==
  /\ variant = "react" /\ phase = "ready" /\ t # cloText
  /\ cloText' = t
  /\ UNCHANGED <<envVars, v3Vars, selVars, phase, mapping, optPEO, level, optBloom,
                 bloom, optVerb, verb, course, generatedList, shown>>

\* Generate button: setCloText(generateCLO(courseName))
ReactGenerate ==
  /\ variant = "react" /\ phase = "ready"
  /\ cloText' = IF R_GenerateRefused THEN <<>> ELSE R_generateCLO(course)
  /\ UNCHANGED <<envVars, v3Vars, selVars, phase, mapping, optPEO, level, optBloom,
                 bloom, optVerb, verb, course, generatedList, shown>>

ReactSave ==
  /\ variant = "react" /\ phase = "ready"
  /\ Len(generatedList) < MaxRecords
  /\ IF cloText = <<>> THEN UNCHANGED <<cloText, generatedList>>
     ELSE /\ generatedList' = Append(generatedList, R_savedItem)
          /\ cloText' = <<>>
  /\ UNCHANGED <<envVars, v3Vars, selVars, phase, mapping, optPEO, level, optBloom,
                 bloom, optVerb, verb, course, shown>>

ReactBulk(rows) ==
  /\ variant = "react" /\ phase = "ready"
  /\ Len(generatedList) + Len(rows) <= MaxRecords
  /\ generatedList' = generatedList \o MapSeq(rows, R_bulkItem)
  /\ cloText' = IF rows = <<>> \/ R_GenerateRefused THEN cloText
                ELSE R_generateCLO(rows[Len(rows)])
  /\ UNCHANGED <<envVars, v3Vars, selVars, phase, mapping, optPEO, level, optBloom,
                 bloom, optVerb, verb, course, shown>>

ReactDelete(i) ==
  /\ variant = "react" /\ phase = "ready"
  /\ i \in 1..Len(generatedList)
  /\ generatedList' = Remove(generatedList, i)
  /\ UNCHANGED <<envVars, v3Vars, selVars, phase, mapping, optPEO, level, optBloom,
                 bloom, optVerb, verb, course, cloText, shown>>

ReactClearAll ==
  /\ variant = "react" /\ phase = "ready"
  /\ generatedList' = <<>>
  /\ UNCHANGED <<envVars, v3Vars, selVars, phase, mapping, optPEO, level, optBloom,
                 bloom, optVerb, verb, course, cloText, shown>>

\* the sheet rows exportXLSX builds from the list
R_toRows(list) ==
  [i \in 1..Len(list) |->
     LET g == list[i]
         withSC(p) == LET sc == getSCfromMapping(mapping, p)
                      IN IF sc # "" THEN <<p, " (SC: ", sc, ")">> ELSE <<p>>
     IN [No         |-> i,
         Course     |-> Txt(g.course),
         PEO        |-> Txt(g.peo),
         PLOs       |-> Join([j \in 1..Len(g.plos) |-> withSC(g.plos[j])], "; "),
         IEGs       |-> Join(MapSeq(g.iegs, Txt), "; "),
         Bloom      |-> IF Has(g, "bloom") THEN Txt(g.bloom) ELSE <<>>,
         Verb       |-> IF Has(g, "verb") THEN Txt(g.verb) ELSE <<>>,
         Assessment |-> IF Has(g, "assessment") THEN Join(MapSeq(g.assessment, Txt), "; ")
                        ELSE <<>>,
         CLO        |-> g.clo,
         SavedAt    |-> Txt(g.timestamp)]]

\* Export XLSX button: a workbook of one sheet, saved whatever the list holds
ReactExportXLSX ==
  /\ variant = "react" /\ phase = "ready"
  /\ exported' = << [name    |-> <<"generated_clos_", fmtDateShort, ".xlsx">>,
                     mime    |-> "application/octet-stream",
                     content |-> [sheet |-> "Generated CLOs",
                                  rows  |-> R_toRows(generatedList)]] >>
  /\ alerted' = ""
  /\ UNCHANGED <<variant, fetched, stored, loadLog, v3Vars, selVars, phase, mapping,
                 optPEO, level, optBloom, bloom, optVerb, verb, course, cloText,
                 generatedList, shown>>

\* Export JSON button
ReactExportJSON ==
  /\ variant = "react" /\ phase = "ready"
  /\ exported' = << [name    |-> <<"generated_clos_", fmtDateShort, ".json">>,
                     mime    |-> "application/json",
                     content |-> stringify(generatedList)] >>
  /\ alerted' = ""
  /\ UNCHANGED <<variant, fetched, stored, loadLog, v3Vars, selVars, phase, mapping,
                 optPEO, level, optBloom, bloom, optVerb, verb, course, cloText,
                 generatedList, shown>>

ReactSelect ==
  \/ ReactLoad
  \/ \E p \in Range(PEOOrder) \cup {""} : ReactPeoChange(p)
  \/ \E b \in BloomInputs : ReactBloomChange(b)
  \/ \E v \in VerbInputs : ReactVerbInput(v)

\* the preview and the session list, the two export buttons apart
ReactSession ==
  \/ \E i \in 1..MaxAppend : ReactAssessClick(i)
  \/ \E t \in TypedTexts : ReactEditPreview(t)
  \/ ReactGenerate
  \/ Len(generatedList) < SessionRecords /\ ReactSave
  \/ \E rows \in BulkInputs :
       Len(generatedList) + Len(rows) <= SessionRecords /\ ReactBulk(rows)
  \/ \E i \in 1..MaxRecords : ReactDelete(i)
  \/ ReactClearAll

(***************************************************************************)
(* v1: the self-mounting generator (part_004); its document is keyed by    *)
(* objective, each entry carrying a PLO and an IEG list                    *)
(***************************************************************************)
DocByPEO ==
  [PEO1 |-> [PLO |-> <<"PLO1", "PLO2">>, IEG |-> <<"IEG1">>],
   PEO2 |-> [PLO |-> <<"PLO3">>],
   PEO3 |-> [IEG |-> <<"IEG2">>]]

\* mapping[peo].PLO || []
V1_PLOs(m, peo) == IF peo # "" /\ Has(m[peo], "PLO") THEN m[peo].PLO ELSE <<>>

\* mapping[peo].IEG || []
V1_IEGs(m, peo) == IF peo # "" /\ Has(m[peo], "IEG") THEN m[peo].IEG ELSE <<>>

\* the buttons updateAssessmentSuggestions renders
updateAssessmentSuggestions(plos) ==
  Slice(Dedupe(Flatten(MapSeq(plos,
          LAMBDA p : IF Has(ASSESSMENT_SUGGESTIONS, p)
                     THEN ASSESSMENT_SUGGESTIONS[p] ELSE <<>>))), 8)

\* the verbs updateVerbSuggestion displays
updateVerbSuggestion(b) == IF Has(BLOOM_VERBS, b) THEN BLOOM_VERBS[b] ELSE <<>>

generateCLOText(label) ==
  <<"Upon successful completion of ", label, ", the student will be able to ",
    R_resolveVerb(verb, bloom), " ">>
  \o (IF selectedPLOs # <<>>
      THEN <<"competencies related to ">> \o Join(MapSeq(selectedPLOs, Txt), ", ")
      ELSE <<"the expected learning outcomes">>)
  \o <<". This aligns to ">> \o Txt(selectedPEO)
  \o <<" and develops graduate attributes: ">> \o Join(MapSeq(selectedIEGs, Txt), ", ")
  \o <<". Recommended assessment methods: ">> \o Join(MapSeq(assessment, Txt), ", ")
  \o <<".">>

\* the item the bulk handler pushes for one label
V1_bulkItem(label) ==
  [course    |-> label,
   peo       |-> selectedPEO,
   plos      |-> selectedPLOs,
   iegs      |-> selectedIEGs,
   clo       |-> generateCLOText(label),
   timestamp |-> "now"]

\* mount: fetch, then render(target, data) or the failure message
V1Load ==
  /\ variant = "v1" /\ phase = "loading"
  /\ IF fetched.ok
     THEN /\ mapping' = fetched.doc
          /\ optPEO' = KeysIn(PEOOrder, fetched.doc)
          /\ optBloom' = BloomOrder
          /\ bloom' = "Apply"
          /\ optVerb' = BLOOM_VERBS["Apply"]
          /\ phase' = "ready"
     ELSE phase' = "failed" /\ UNCHANGED <<mapping, optPEO, optBloom, bloom, optVerb>>
  \* mount's catch: console.error(err), then the message replaces the target
  /\ loadLog' = IF fetched.ok THEN << >>
                ELSE << [to |-> "console", text |-> "Mapping JSON not found"],
                        [to |-> "page", text |-> "Failed to load PEO-PLO-IEG mapping: "] >>
  /\ UNCHANGED <<variant, fetched, stored, exported, alerted, v3Vars, selVars, level, verb, course, cloText,
                 generatedList, shown>>

V1PeoChange(p) ==
  /\ variant = "v1" /\ phase = "ready"
  /\ p \in Range(optPEO) \cup {""} /\ p # selectedPEO
  /\ selectedPEO' = p
  /\ selectedPLOs' = V1_PLOs(mapping, p)
  /\ selectedIEGs' = V1_IEGs(mapping, p)
  /\ UNCHANGED <<envVars, v3Vars, phase, mapping, optPEO, level, optBloom, bloom,
                 optVerb, verb, course, cloText, generatedList, shown>>

V1BloomChange(b) ==
  /\ variant = "v1" /\ phase = "ready"
  /\ Includes(optBloom, b) /\ b # bloom
  /\ bloom' = b
  /\ optVerb' = updateVerbSuggestion(b)
  /\ UNCHANGED <<envVars, v3Vars, selVars, phase, mapping, optPEO, level, optBloom,
                 verb, course, cloText, generatedList, shown>>

V1VerbInput(v) ==
  /\ variant = "v1" /\ phase = "ready" /\ v # verb
  /\ verb' = v
  /\ UNCHANGED <<envVars, v3Vars, selVars, phase, mapping, optPEO, level, optBloom,
                 bloom, optVerb, course, cloText, generatedList, shown>>

V1CourseInput(c) ==
  /\ variant = "v1" /\ phase = "ready" /\ c # course
  /\ course' = c
  /\ UNCHANGED <<envVars, v3Vars, selVars, phase, mapping, optPEO, level, optBloom,
                 bloom, optVerb, verb, cloText, generatedList, shown>>

\* a click on suggestion button i toggles it in state.assessmentMethods
V1AssessClick(i) ==
  /\ variant = "v1" /\ phase = "ready"
  /\ i \in 1..Len(updateAssessmentSuggestions(selectedPLOs))
  /\ LET a == updateAssessmentSuggestions(selectedPLOs)[i]
     IN assessment' = IF Includes(assessment, a)
                      THEN SelectSeq(assessment, LAMBDA x : x # a)
                      ELSE Append(assessment, a)
  /\ UNCHANGED <<envVars, optIEG, selIEG, optPLO, selPLO, pending, selVars, phase,
                 mapping, optPEO, level, optBloom, bloom, optVerb, verb, course,
                 cloText, generatedList, shown>>

V1Generate ==
  /\ variant = "v1" /\ phase = "ready"
  /\ cloText' = generateCLOText(course)
  /\ UNCHANGED <<envVars, v3Vars, selVars, phase, mapping, optPEO, level, optBloom,
                 bloom, optVerb, verb, course, generatedList, shown>>

V1Save ==
  /\ variant = "v1" /\ phase = "ready"
  /\ Len(generatedList) < MaxRecords
  /\ IF cloText = <<>> THEN UNCHANGED <<cloText, generatedList>>
     ELSE /\ generatedList' = Append(generatedList, R_savedItem)
          /\ cloText' = <<>>
  /\ UNCHANGED <<envVars, v3Vars, selVars, phase, mapping, optPEO, level, optBloom,
                 bloom, optVerb, verb, course, shown>>

V1Bulk(rows) ==
  /\ variant = "v1" /\ phase = "ready"
  /\ Len(generatedList) + Len(rows) <= MaxRecords
  /\ IF rows = <<>> THEN UNCHANGED <<cloText, generatedList>>
     ELSE /\ generatedList' = generatedList \o MapSeq(rows, V1_bulkItem)
          /\ cloText' = generateCLOText(rows[Len(rows)])
  /\ UNCHANGED <<envVars, v3Vars, selVars, phase, mapping, optPEO, level, optBloom,
                 bloom, optVerb, verb, course, shown>>

V1Delete(i) ==
  /\ variant = "v1" /\ phase = "ready"
  /\ i \in 1..Len(generatedList)
  /\ generatedList' = Remove(generatedList, i)
  /\ UNCHANGED <<envVars, v3Vars, selVars, phase, mapping, optPEO, level, optBloom,
                 bloom, optVerb, verb, course, cloText, shown>>

V1ClearAll(yes) ==
  /\ variant = "v1" /\ phase = "ready"
  /\ generatedList' = IF yes THEN <<>> ELSE generatedList
  /\ UNCHANGED <<envVars, v3Vars, selVars, phase, mapping, optPEO, level, optBloom,
                 bloom, optVerb, verb, course, cloText, shown>>

\* Export XLSX button: exportToXLSX(state.generatedList); sheetjs tells
\* whether the page has loaded the XLSX global. Nothing tests the length of
\* the list, and the file name carries no date
V1ExportXLSX(sheetjs) ==
  /\ variant = "v1" /\ phase = "ready"
  /\ IF ~sheetjs
     THEN /\ exported' = <<>>
          /\ alerted' = "XLSX library not loaded. Add the SheetJS CDN before advanced_clo_generator.js to enable XLSX export."
     ELSE LET opt(g, k) == IF Has(g, k) THEN Txt(g[k]) ELSE <<>>
              flat == [i \in 1..Len(generatedList) |->
                         LET g == generatedList[i]
                         IN [No         |-> i,
                             Course     |-> Txt(g.course),
                             PEO        |-> Txt(g.peo),
                             PLOs       |-> Join(MapSeq(g.plos, Txt), "; "),
                             IEGs       |-> Join(MapSeq(g.iegs, Txt), "; "),
                             Bloom      |-> opt(g, "bloom"),
                             Verb       |-> opt(g, "verb"),
                             Assessment |-> IF Has(g, "assessment")
                                            THEN Join(MapSeq(g.assessment, Txt), "; ")
                                            ELSE <<>>,
                             CLO        |-> g.clo,
                             SavedAt    |-> Txt(g.timestamp)]]
          IN /\ exported' = << [name    |-> <<"generated_clos.xlsx">>,
                                mime    |-> "application/octet-stream",
                                content |-> [sheet |-> "Generated CLOs",
                                             rows  |-> flat]] >>
             /\ alerted' = ""
  /\ UNCHANGED <<variant, fetched, stored, loadLog, v3Vars, selVars, phase, mapping,
                 optPEO, level, optBloom, bloom, optVerb, verb, course, cloText,
                 generatedList, shown>>

\* Export JSON button: downloadJSON(state.generatedList)
V1ExportJSON ==
  /\ variant = "v1" /\ phase = "ready"
  /\ exported' = << [name    |-> <<"generated_clos.json">>,
                     mime    |-> "application/json",
                     content |-> stringify(generatedList)] >>
  /\ alerted' = ""
  /\ UNCHANGED <<variant, fetched, stored, loadLog, v3Vars, selVars, phase, mapping,
                 optPEO, level, optBloom, bloom, optVerb, verb, course, cloText,
                 generatedList, shown>>

V1Select ==
  \/ V1Load
  \/ \E p \in Range(PEOOrder) \cup {""} : V1PeoChange(p)
  \/ \E b \in BloomInputs : V1BloomChange(b)
  \/ \E v \in VerbInputs : V1VerbInput(v)
  \/ \E c \in CourseInputs : V1CourseInput(c)

(***************************************************************************)
(* v2: the mapping viewer (part_000)                                       *)
(***************************************************************************)
\* Object.assign replaced by a merge that keeps the base's entries of a table
V2_assign_deep(json, override) ==
  [k \in DOMAIN json \cup DOMAIN override |->
     IF Has(override, k) /\ Has(json, k)
     THEN [e \in DOMAIN json[k] \cup DOMAIN override[k] |->
             IF Has(override[k], e) THEN override[k][e] ELSE json[k][e]]
     ELSE IF Has(override, k) THEN override[k] ELSE json[k]]

\* Object.assign(MAP, override): every key of the override replaces MAP's
V2_assign(json, override) ==
  [k \in DOMAIN json \cup DOMAIN override |->
     IF Has(override, k) THEN override[k] ELSE json[k]]

\* the value of MAP when loadMapping returns; a malformed override throws
\* after MAP was assigned the fetched document
V2_loadMapping(json, saved) ==
  IF saved.kind = "doc" THEN V2_assign(json, saved.doc) ELSE json

\* populatePEOs, which the malformed override's throw skips
populatePEOs(m, saved) ==
  IF saved.kind = "malformed" \/ ~Has(m, "PEOtoPLO") THEN <<>>
  ELSE KeysIn(PEOOrder, m.PEOtoPLO)

\* what showMapping writes to the output panel
showMapping(m, peo, lvl) ==
  [peo          |-> peo,
   level        |-> lvl,
   peoStatement |-> OrStr(Scoped(m, "PEOstatements", lvl, peo), "(no PEO statement)"),
   iegList      |-> deriveIEGs(m, peo),
   plos         |-> MapSeq(IF Has(m, "PEOtoPLO") /\ Has(m.PEOtoPLO, peo)
                           THEN m.PEOtoPLO[peo] ELSE <<>>,
                      LAMBDA p :
                        [id        |-> p,
                         statement |-> OrStr(Scoped(m, "PLOstatements", lvl, p),
                                             "(no PLO statement)"),
                         sc        |-> OrStr(Flat(m, "SCmapping", p), "-"),
                         vbe       |-> OrStr(Flat(m, "PLOtoVBE", p), "-"),
                         indicator |-> OrStr(Flat(m, "PLOIndicators", p), "-")])]

V2Load ==
  /\ variant = "v2" /\ phase = "loading"
  /\ IF fetched.ok
     THEN /\ mapping' = V2_loadMapping(fetched.doc, stored)
          /\ optPEO' = populatePEOs(mapping', stored)
          /\ phase' = "ready"
     ELSE phase' = "failed" /\ UNCHANGED <<mapping, optPEO>>
  \* loadMapping's single catch serves the fetch and the override alike
  /\ loadLog' = IF fetched.ok /\ stored.kind # "malformed" THEN << >>
                ELSE << [to |-> "console", text |-> "Failed loading mapping:"] >>
  /\ UNCHANGED <<variant, fetched, stored, exported, alerted, v3Vars, selVars, level, optBloom, bloom, optVerb, verb,
                 course, cloText, generatedList, shown>>

\* al_peo change
V2PeoChange(p) ==
  /\ variant = "v2" /\ phase = "ready"
  /\ p \in Range(optPEO) /\ p # selectedPEO
  /\ selectedPEO' = p
  /\ shown' = showMapping(mapping, p, level)
  /\ UNCHANGED <<envVars, v3Vars, selectedPLOs, selectedIEGs, phase, mapping,
                 optPEO, level, optBloom, bloom, optVerb, verb, course, cloText,
                 generatedList>>

\* the level handler rendering with the level in the objective's place
V2LevelChange_reset(l) ==
  /\ variant = "v2"
  /\ Includes(Levels, l) /\ l # level
  /\ level' = l
  /\ selectedPEO' = ""
  /\ shown' = IF selectedPEO # "" THEN showMapping(mapping, l, l) ELSE shown
  /\ UNCHANGED <<envVars, v3Vars, selectedPLOs, selectedIEGs, phase, mapping,
                 optPEO, optBloom, bloom, optVerb, verb, course, cloText,
                 generatedList>>

\* al_level change
V2LevelChange(l) ==
  /\ variant = "v2"
  /\ Includes(Levels, l) /\ l # level
  /\ level' = l
  /\ shown' = IF selectedPEO # "" THEN showMapping(mapping, selectedPEO, l) ELSE shown
  /\ UNCHANGED <<envVars, v3Vars, selVars, phase, mapping, optPEO, optBloom, bloom,
                 optVerb, verb, course, cloText, generatedList>>

V2Next ==
  \/ V2Load
  \/ \E p \in Range(PEOOrder) : V2PeoChange(p)
  \/ \E l \in LevelInputs : V2LevelChange(l)

(***************************************************************************)
(* v3: the attribute -> objective -> outcome cascade                       *)
(* (advanced_clo_generator_v3.js, the build starting at line 216)          *)
(***************************************************************************)
\* String.toLowerCase on the table names documents spell
toLowerCase(k) ==
  CASE k \in {"IEGs", "iegs"}         -> "iegs"
    [] k \in {"IEGtoPEO", "iegtopeo"} -> "iegtopeo"
    [] k = "PEOtoPLO"                 -> "peotoplo"
    [] k = "PLOstatements"            -> "plostatements"
    [] k = "PEOstatements"            -> "peostatements"
    [] k = "IEGstatements"            -> "iegstatements"
    [] k = "PLOIndicators"            -> "ploindicators"
    [] OTHER                          -> k

\* pick(obj, key): whether a key of obj matches ignoring case, and its value
picked(obj, key) == {k \in DOMAIN obj : toLowerCase(k) = toLowerCase(key)}

pick(obj, key) == obj[CHOOSE k \in picked(obj, key) : TRUE]

\* the tables picked from MAP, absent when pick returns undefined
V3_tables(m) ==
  [t \in {t \in {"IEGs", "IEGtoPEO", "PEOtoPLO", "PLOstatements", "PEOstatements",
                 "IEGstatements", "PLOIndicators"} : picked(m, t) # {}}
     |-> pick(m, t)]

\* populateIEG: IEG_LIST || Object.keys(IEGtoPEO || {})
populateIEG(m) ==
  IF Has(m, "IEGs") THEN m.IEGs
  ELSE IF Has(m, "IEGtoPEO") THEN KeysIn(IEGOrder, m.IEGtoPEO)
  ELSE <<>>

\* T?.[id] || []
V3_list(m, table, id) ==
  IF Has(m, table) /\ Has(m[table], id) THEN m[table][id] ELSE <<>>

\* the replies of the backend routes /api/get_blooms and /api/get_verbs,
\* which the handlers render without inspection
BloomsReplies == {[ok |-> TRUE, list |-> <<"Apply", "Create">>],
                  [ok |-> FALSE, list |-> <<>>]}

VerbsReplies(b) ==
  {[ok |-> TRUE, list |-> IF Has(BLOOM_VERBS, b) THEN Slice(BLOOM_VERBS[b], 2) ELSE <<>>],
   [ok |-> FALSE, list |-> <<>>]}

\* the placeholder text of an unset statement, an em dash on the page
Dash == "-"

Loading == "Loading..."

ErrorBlooms == "Error loading Blooms"

V3Shown0 == [ieg |-> "", peo |-> "", plo |-> "", ind |-> "", meta |-> <<>>]

\* loadJSON, the picks and populateIEG
V3Load ==
  /\ variant = "v3" /\ phase = "loading"
  /\ mapping' = V3_tables(IF fetched.ok THEN fetched.doc ELSE EmptyMap)
  /\ optIEG' = populateIEG(mapping')
  /\ phase' = "ready"
  \* loadJSON's catch
  /\ loadLog' = IF fetched.ok THEN << >>
                ELSE << [to |-> "console", text |-> "Cannot load JSON:"] >>
  /\ UNCHANGED <<variant, fetched, stored, exported, alerted, selIEG, optPEO, optPLO, selPLO, pending, assessment,
                 selVars, level, optBloom, bloom, optVerb, verb, course, cloText,
                 generatedList, shown>>

\* the attribute handler without the repopulation of peoSel
V3IegChange_stale(a) ==
  /\ variant = "v3" /\ phase = "ready"
  /\ a \in Range(optIEG) /\ a # selIEG
  /\ selIEG' = a
  /\ selectedPEO' = ""
  /\ optPLO' = <<>>
  /\ selPLO' = ""
  /\ shown' = [shown EXCEPT !.ieg = OrStr(Flat(mapping, "IEGstatements", a), a),
                            !.peo = Dash, !.plo = Dash, !.ind = Dash]
  /\ UNCHANGED <<envVars, optIEG, pending, assessment, selectedPLOs, selectedIEGs,
                 phase, mapping, optPEO, level, optBloom, bloom, optVerb, verb,
                 course, cloText, generatedList>>

\* iegSel change
V3IegChange(a) ==
  /\ variant = "v3" /\ phase = "ready"
  /\ a \in Range(optIEG) /\ a # selIEG
  /\ selIEG' = a
  /\ optPEO' = V3_list(mapping, "IEGtoPEO", a)
  /\ selectedPEO' = ""
  /\ optPLO' = <<>>
  /\ selPLO' = ""
  /\ shown' = [shown EXCEPT !.ieg = OrStr(Flat(mapping, "IEGstatements", a), a),
                            !.peo = Dash, !.plo = Dash, !.ind = Dash]
  /\ UNCHANGED <<envVars, optIEG, pending, assessment, selectedPLOs, selectedIEGs,
                 phase, mapping, level, optBloom, bloom, optVerb, verb, course,
                 cloText, generatedList>>

\* peoSel change
V3PeoChange(p) ==
  /\ variant = "v3" /\ phase = "ready"
  /\ p \in Range(optPEO) /\ p # selectedPEO
  /\ selectedPEO' = p
  /\ optPLO' = V3_list(mapping, "PEOtoPLO", p)
  /\ selPLO' = ""
  /\ shown' = [shown EXCEPT !.peo =
                 OrStr(Scoped(mapping, "PEOstatements", level, p),
                       OrStr(Flat(mapping, "PEOstatements", p), p))]
  /\ UNCHANGED <<envVars, optIEG, selIEG, pending, assessment, selectedPLOs,
                 selectedIEGs, phase, mapping, optPEO, level, optBloom, bloom,
                 optVerb, verb, course, cloText, generatedList>>

\* ploSel change, up to the await of the Bloom request
V3PloChange(plo) ==
  /\ variant = "v3" /\ phase = "ready"
  /\ plo \in Range(optPLO) /\ plo # selPLO
  /\ Cardinality(pending) < MaxPending
  /\ selPLO' = plo
  /\ shown' = [shown EXCEPT !.plo =
                 OrStr(Scoped(mapping, "PLOstatements", level, plo),
                       OrStr(Flat(mapping, "PLOstatements", plo), Dash)),
                            !.ind = OrStr(Flat(mapping, "PLOIndicators", plo), Dash)]
  /\ optBloom' = <<Loading>>
  /\ bloom' = Loading
  /\ pending' = pending \cup {[kind |-> "blooms", plo |-> plo, bloom |-> ""]}
  /\ UNCHANGED <<envVars, optIEG, selIEG, optPLO, assessment, selVars, phase,
                 mapping, optPEO, level, optVerb, verb, course, cloText,
                 generatedList>>

\* ploSel change, from the reply of the Bloom request to the end
V3BloomsReply(req, reply) ==
  /\ variant = "v3" /\ req \in pending /\ req.kind = "blooms"
  /\ reply \in BloomsReplies
  /\ optBloom' = IF reply.ok THEN reply.list ELSE <<ErrorBlooms>>
  /\ bloom' = IF reply.ok THEN "" ELSE ErrorBlooms
  /\ optVerb' = <<>>
  /\ verb' = ""
  /\ pending' = pending \ {req}
  /\ UNCHANGED <<envVars, optIEG, selIEG, optPLO, selPLO, assessment, selVars,
                 phase, mapping, optPEO, level, course, cloText, generatedList,
                 shown>>

\* bloomSel change, up to the await of the verb request
V3BloomChange(b) ==
  /\ variant = "v3" /\ phase = "ready"
  /\ b \in Range(optBloom) \ {Loading, ErrorBlooms} /\ b # bloom
  /\ Cardinality(pending) < MaxPending
  /\ bloom' = b
  /\ optVerb' = <<Loading>>
  /\ verb' = Loading
  /\ pending' = pending \cup {[kind |-> "verbs", plo |-> selPLO, bloom |-> b]}
  /\ UNCHANGED <<envVars, optIEG, selIEG, optPLO, selPLO, assessment, selVars,
                 phase, mapping, optPEO, level, optBloom, course, cloText,
                 generatedList, shown>>

\* bloomSel change, from the reply of the verb request to the await of the
\* meta request; a failed request rejects the handler's promise
V3VerbsReply(req, reply) ==
  /\ variant = "v3" /\ req \in pending /\ req.kind = "verbs"
  /\ reply \in VerbsReplies(req.bloom)
  /\ IF reply.ok
     THEN /\ optVerb' = reply.list
          /\ verb' = ""
          /\ pending' = (pending \ {req}) \cup {[req EXCEPT !.kind = "meta"]}
     ELSE /\ pending' = pending \ {req}
          /\ UNCHANGED <<optVerb, verb>>
  /\ UNCHANGED <<envVars, optIEG, selIEG, optPLO, selPLO, assessment, selVars,
                 phase, mapping, optPEO, level, optBloom, bloom, course, cloText,
                 generatedList, shown>>

\* bloomSel change, from the reply of the meta request to the end
V3MetaReply(req, ok) ==
  /\ variant = "v3" /\ req \in pending /\ req.kind = "meta"
  /\ shown' = IF ok THEN [shown EXCEPT !.meta = <<req.plo, req.bloom>>] ELSE shown
  /\ pending' = pending \ {req}
  /\ UNCHANGED <<envVars, optIEG, selIEG, optPLO, selPLO, assessment, selVars,
                 phase, mapping, optPEO, level, optBloom, bloom, optVerb, verb,
                 course, cloText, generatedList>>

\* the operator picks a verb; verbSel has no listener
V3VerbPick(v) ==
  /\ variant = "v3" /\ phase = "ready"
  /\ v \in Range(optVerb) \ {Loading} /\ v # verb
  /\ verb' = v
  /\ UNCHANGED <<envVars, v3Vars, selVars, phase, mapping, optPEO, level, optBloom,
                 bloom, optVerb, course, cloText, generatedList, shown>>

\* the operator picks a level; levelSel has no listener
V3LevelChange(l) ==
  /\ variant = "v3"
  /\ Includes(Levels, l) /\ l # level
  /\ level' = l
  /\ UNCHANGED <<envVars, v3Vars, selVars, phase, mapping, optPEO, optBloom, bloom,
                 optVerb, verb, course, cloText, generatedList, shown>>

V3Next ==
  \/ V3Load
  \/ \E a \in Range(IEGOrder) : V3IegChange(a)
  \/ \E p \in Range(PEOOrder) : V3PeoChange(p)
  \/ \E plo \in {"PLO1", "PLO2", "PLO3"} : V3PloChange(plo)
  \/ \E req \in pending : \E reply \in BloomsReplies : V3BloomsReply(req, reply)
  \/ \E b \in BloomInputs : V3BloomChange(b)
  \/ \E req \in pending : \E reply \in VerbsReplies(req.bloom) : V3VerbsReply(req, reply)
  \/ \E req \in pending : \E ok \in BOOLEAN : V3MetaReply(req, ok)
  \/ \E v \in Range(BLOOM_VERBS["Apply"]) \cup Range(BLOOM_VERBS["Create"]) : V3VerbPick(v)
  \/ \E l \in LevelInputs : V3LevelChange(l)

(***************************************************************************)
(* linker: the auto-linker component (part_002) over the first hook of     *)
(* hooks/usePEOPLOIEG.js                                                   *)
(***************************************************************************)
\* the hook's effect: the stored document as it is, or the two default
\* tables; the objective <select> offers Object.keys(mapping)
LinkerLoad ==
  /\ variant = "linker" /\ phase = "loading"
  /\ IF stored.kind = "malformed"
     THEN phase' = "failed" /\ UNCHANGED <<mapping, optPEO>>   \* JSON.parse throws in the effect
     ELSE /\ mapping' = IF stored.kind = "doc" THEN stored.doc
                        ELSE [IEGtoPEO |-> defaultIEGtoPEO, PEOtoPLO |-> defaultPEOtoPLO]
          /\ optPEO' = KeysIn(PEOOrder \o <<"IEGtoPEO", "PEOtoPLO">>, mapping')
          /\ phase' = "ready"
  /\ UNCHANGED <<envVars, v3Vars, selVars, level, optBloom, bloom, optVerb, verb,
                 course, cloText, generatedList, shown>>

\* the objective <select> onChange, with the two effects it triggers: the
\* first returns at once when no objective is selected; the second runs only
\* when setSelectedPLOs stored another array than the one held. React
\* compares the two by identity: mapping[p].PLO is the same object at every
\* selection of p, while `|| []` makes a new one each time. The PLO arrays of
\* a document are distinct objects, and those of the documents used here
\* also differ in value from each other and from [], so holding the array of
\* p is holding its value
LinkerPeoChange(p) ==
  /\ variant = "linker" /\ phase = "ready"
  /\ p \in Range(optPEO) \cup {""} /\ p # selectedPEO
  /\ selectedPEO' = p
  /\ IF p = ""
     THEN UNCHANGED <<selectedPLOs, selectedIEGs, assessment>>
     ELSE /\ selectedPLOs' = V1_PLOs(mapping, p)
          /\ selectedIEGs' = V1_IEGs(mapping, p)
          /\ assessment' =
               IF Has(mapping[p], "PLO") /\ selectedPLOs = mapping[p].PLO
               THEN assessment
               ELSE Slice(updateAssessmentSuggestions(selectedPLOs'), 5)
  /\ UNCHANGED <<envVars, optIEG, selIEG, optPLO, selPLO, pending, phase, mapping,
                 optPEO, level, optBloom, bloom, optVerb, verb, course, cloText,
                 generatedList, shown>>

\* Bloom <select> onChange: setBloomLevel
LinkerBloomChange(b) ==
  /\ variant = "linker" /\ phase = "ready"
  /\ Includes(optBloom, b) /\ b # bloom
  /\ bloom' = b
  /\ UNCHANGED <<envVars, v3Vars, selVars, phase, mapping, optPEO, level, optBloom,
                 optVerb, verb, course, cloText, generatedList, shown>>

\* verb <input> onChange: setCustomVerb
LinkerVerbInput(v) ==
  /\ variant = "linker" /\ phase = "ready" /\ v # verb
  /\ verb' = v
  /\ UNCHANGED <<envVars, v3Vars, selVars, phase, mapping, optPEO, level, optBloom,
                 bloom, optVerb, course, cloText, generatedList, shown>>

\* the buttons drawn from assessmentMethods itself: a click on button i finds
\* its method in the list and filters it out
LinkerAssessClick(i) ==
  /\ variant = "linker" /\ phase = "ready"
  /\ i \in 1..Len(assessment)
  /\ assessment' = SelectSeq(assessment, LAMBDA x : x # assessment[i])
  /\ UNCHANGED <<envVars, optIEG, selIEG, optPLO, selPLO, pending, selVars, phase,
                 mapping, optPEO, level, optBloom, bloom, optVerb, verb, course,
                 cloText, generatedList, shown>>

\* preview <textarea> onChange: setCloText
LinkerEditPreview(t) ==
  /\ variant = "linker" /\ phase = "ready" /\ t # cloText
  /\ cloText' = t
  /\ UNCHANGED <<envVars, v3Vars, selVars, phase, mapping, optPEO, level, optBloom,
                 bloom, optVerb, verb, course, generatedList, shown>>

\* Generate button: setCloText(generateCLO(courseName)); generateCLO returns
\* "" when no objective is selected, and the statement of part_004 otherwise
LinkerGenerate ==
  /\ variant = "linker" /\ phase = "ready"
  /\ cloText' = IF selectedPEO = "" THEN <<>> ELSE generateCLOText(course)
  /\ UNCHANGED <<envVars, v3Vars, selVars, phase, mapping, optPEO, level, optBloom,
                 bloom, optVerb, verb, course, generatedList, shown>>

\* Save button: saveGenerated
LinkerSave ==
  /\ variant = "linker" /\ phase = "ready"
  /\ Len(generatedList) < MaxRecords
  /\ IF cloText = <<>> THEN UNCHANGED <<cloText, generatedList>>
     ELSE /\ generatedList' = Append(generatedList, R_savedItem)
          /\ cloText' = <<>>
  /\ UNCHANGED <<envVars, v3Vars, selVars, phase, mapping, optPEO, level, optBloom,
                 bloom, optVerb, verb, course, shown>>

\* Bulk Generate button: one item per label, with no timestamp and no test
\* of the text; generateCLO sets the preview at each label once an objective
\* is selected and returns "" without touching it otherwise
LinkerBulk(rows) ==
  /\ variant = "linker" /\ phase = "ready"
  /\ Len(generatedList) + Len(rows) <= MaxRecords
  /\ LET text(label) == IF selectedPEO = "" THEN <<>> ELSE generateCLOText(label)
         item(label) == [course |-> label,
                         peo    |-> selectedPEO,
                         plos   |-> selectedPLOs,
                         iegs   |-> selectedIEGs,
                         clo    |-> text(label)]
     IN /\ generatedList' = generatedList \o MapSeq(rows, item)
        /\ cloText' = IF rows = <<>> \/ selectedPEO = "" THEN cloText
                      ELSE text(rows[Len(rows)])
  /\ UNCHANGED <<envVars, v3Vars, selVars, phase, mapping, optPEO, level, optBloom,
                 bloom, optVerb, verb, course, shown>>

\* Delete button of row i: copy.splice(i, 1)
LinkerDelete(i) ==
  /\ variant = "linker" /\ phase = "ready"
  /\ i \in 1..Len(generatedList)
  /\ generatedList' = Remove(generatedList, i)
  /\ UNCHANGED <<envVars, v3Vars, selVars, phase, mapping, optPEO, level, optBloom,
                 bloom, optVerb, verb, course, cloText, shown>>

\* Clear All button: setGeneratedList([]), with no prompt
LinkerClearAll ==
  /\ variant = "linker" /\ phase = "ready"
  /\ generatedList' = <<>>
  /\ UNCHANGED <<envVars, v3Vars, selVars, phase, mapping, optPEO, level, optBloom,
                 bloom, optVerb, verb, course, cloText, shown>>

\* Export XLSX button: a workbook of one sheet, saved whatever the list holds
LinkerExportXLSX ==
  /\ variant = "linker" /\ phase = "ready"
  /\ LET opt(g, k) == IF Has(g, k) THEN Txt(g[k]) ELSE <<>>
         rows == [i \in 1..Len(generatedList) |->
                    LET g == generatedList[i]
                    IN [No         |-> i,
                        Course     |-> Txt(g.course),
                        PEO        |-> Txt(g.peo),
                        PLOs       |-> Join(MapSeq(g.plos, Txt), "; "),
                        IEGs       |-> Join(MapSeq(g.iegs, Txt), "; "),
                        Bloom      |-> opt(g, "bloom"),
                        Verb       |-> opt(g, "verb"),
                        Assessment |-> IF Has(g, "assessment")
                                       THEN Join(MapSeq(g.assessment, Txt), "; ")
                                       ELSE <<>>,
                        CLO        |-> g.clo,
                        SavedAt    |-> opt(g, "timestamp")]]
     IN exported' = << [name    |-> <<"generated_clos_", fmtDateShort, ".xlsx">>,
                        mime    |-> "application/octet-stream",
                        content |-> [sheet |-> "Generated CLOs", rows |-> rows]] >>
  /\ alerted' = ""
  /\ UNCHANGED <<variant, fetched, stored, loadLog, v3Vars, selVars, phase, mapping,
                 optPEO, level, optBloom, bloom, optVerb, verb, course, cloText,
                 generatedList, shown>>

\* Export JSON button
LinkerExportJSON ==
  /\ variant = "linker" /\ phase = "ready"
  /\ exported' = << [name    |-> <<"generated_clos_", fmtDateShort, ".json">>,
                     mime    |-> "application/json",
                     content |-> stringify(generatedList)] >>
  /\ alerted' = ""
  /\ UNCHANGED <<variant, fetched, stored, loadLog, v3Vars, selVars, phase, mapping,
                 optPEO, level, optBloom, bloom, optVerb, verb, course, cloText,
                 generatedList, shown>>

(***************************************************************************)
(* Specification                                                           *)
(***************************************************************************)
NoFetch == [ok |-> FALSE, doc |-> EmptyMap]

NoStored == [kind |-> "none", doc |-> EmptyMap]

InitOf(D) ==
  /\ \E d \in D : variant = d[1] /\ fetched = d[2] /\ stored = d[3]
  /\ phase = "loading"
  /\ mapping = IF variant = "v3" THEN EmptyMap ELSE Null
  /\ optIEG = <<>> /\ selIEG = ""
  /\ optPEO = <<>> /\ selectedPEO = ""
  /\ optPLO = <<>> /\ selPLO = ""
  /\ selectedPLOs = <<>> /\ selectedIEGs = <<>>
  /\ level = "Degree"
  /\ optBloom = IF variant \in {"react", "linker"} THEN BloomOrder ELSE <<>>
  /\ bloom = IF variant \in {"react", "linker"} THEN "Apply" ELSE ""
  /\ optVerb = <<>> /\ verb = ""
  /\ course = "[Course Name]"
  /\ assessment = <<>>
  /\ cloText = <<>>
  /\ generatedList = <<>>
  /\ shown = IF variant = "v3" THEN V3Shown0 ELSE <<>>
  /\ pending = {}
  /\ loadLog = <<>>
  /\ exported = <<>>
  /\ alerted = ""

\* a session of the two generators with a mapping merge, over a narrow set
\* of deployments (the React component under an override with an empty
\* entry and under one naming a sub-competency): loading, objective
\* selection, and the preview and list handlers
Spec ==
  /\ InitOf({ <<"static", [ok |-> TRUE, doc |-> DocFull], NoStored>>,
              <<"static", NoFetch, NoStored>>,
              <<"static", [ok |-> TRUE, doc |-> DocBare],
                [kind |-> "malformed", doc |-> EmptyMap]>>,
              <<"react", NoFetch, [kind |-> "doc", doc |-> OverrideEmptyEntry]>>,
              <<"react", NoFetch, [kind |-> "doc", doc |-> OverrideSC]>> })
  /\ [][ \/ StaticLoad \/ ReactLoad
         \/ \E p \in Range(PEOOrder) \cup {""} :
              StaticPeoChange(p) \/ ReactPeoChange(p)
         \/ StaticSession \/ ReactSession ]_vars

\* the static generator over a served document and over a failed fetch, with
\* every control of the page: the selects and text fields (each input taken
\* from one value besides the initial one), the preview, the suggestion
\* buttons, Generate, Save, bulk, the Delete button of a row, Clear All and
\* the two exports
SpecStatic ==
  /\ InitOf({ <<"static", [ok |-> TRUE, doc |-> DocFull], NoStored>>,
              <<"static", NoFetch, NoStored>> })
  /\ [][ \/ StaticLoad
         \/ \E p \in {"PEO1"} : StaticPeoChange(p)
         \/ \E b \in {"Create"} : StaticBloomChange(b)
         \/ \E l \in {"Master"} : StaticLevelChange(l)
         \/ \E v \in {"design"} : StaticVerbInput(v)
         \/ \E c \in {"CS101"} : StaticCourseInput(c)
         \/ \E t \in TypedTexts : StaticEditPreview(t)
         \/ \E i \in 1..MaxAppend : StaticAssessClick(i)
         \/ StaticGenerate
         \/ Len(generatedList) < SessionRecords /\ StaticSave
         \/ \E rows \in BulkInputs :
              Len(generatedList) + Len(rows) <= SessionRecords /\ StaticBulk(rows)
         \/ \E i \in 1..MaxRecords : StaticDelete(i)
         \/ \E yes \in BOOLEAN : StaticClearAll(yes)
         \/ StaticExportCSV \/ StaticExportJSON ]_vars

\* the static generator when the fetch of the document is rejected. The
\* catch of the initial load fills neither peoSelect nor bloomSelect and
\* draws no suggestion button, so the controls below are all the page offers
SpecUnavailable ==
  /\ InitOf({ <<"static", NoFetch, NoStored>> })
  /\ [][ \/ StaticLoad
         \/ \E l \in LevelInputs : StaticLevelChange(l)
         \/ \E v \in VerbInputs : StaticVerbInput(v)
         \/ \E c \in CourseInputs : StaticCourseInput(c)
         \/ \E t \in TypedTexts : StaticEditPreview(t)
         \/ StaticGenerate
         \/ Len(generatedList) < SessionRecords /\ StaticSave
         \/ \E rows \in BulkInputs :
              Len(generatedList) + Len(rows) <= SessionRecords /\ StaticBulk(rows)
         \/ \E i \in 1..MaxRecords : StaticDelete(i)
         \/ \E yes \in BOOLEAN : StaticClearAll(yes)
         \/ StaticExportCSV \/ StaticExportJSON ]_vars

\* sessions that build a list in bulk and export it: the static generator over
\* a document without statement tables, and the React component on its
\* defaults, on an override with statements and on one naming a sub-competency
SpecExport ==
  /\ InitOf({ <<"static", [ok |-> TRUE, doc |-> DocBare],
                [kind |-> "malformed", doc |-> EmptyMap]>>,
              <<"react", NoFetch, NoStored>>,
              <<"react", NoFetch, [kind |-> "doc", doc |-> OverrideStatements]>>,
              <<"react", NoFetch, [kind |-> "doc", doc |-> OverrideSC]>> })
  /\ [][ \/ StaticLoad \/ ReactLoad
         \/ \E p \in {"", "PEO1", "PEO2"} : StaticPeoChange(p) \/ ReactPeoChange(p)
         \/ \E rows \in BulkInputs :
              Len(generatedList) + Len(rows) <= SessionRecords /\ StaticBulk(rows)
         \/ \E rows \in BulkInputs :
              Len(generatedList) + Len(rows) <= SessionRecords /\ ReactBulk(rows)
         \/ \E i \in 1..MaxRecords : StaticDelete(i) \/ ReactDelete(i)
         \/ \E yes \in BOOLEAN : StaticClearAll(yes)
         \/ ReactClearAll
         \/ StaticExportCSV \/ StaticExportJSON
         \/ ReactExportXLSX \/ ReactExportJSON ]_vars

(***************************************************************************)
(* The mapping editor page, open in another tab of the same browser        *)
(***************************************************************************)
\* MappingEditor.jsx holds two drafts of the page. The second (from line 138)
\* reads SCmapping, which nothing declares, in its first render and so never
\* draws a button; the page that runs is the first draft.
\* The editor is on the page: its load effect parses what localStorage holds
\* with no try around JSON.parse, and the first render reads IEGtoPEO[ieg]
\* and PEOtoPLO[peo] of what was parsed, so an undecodable override or one
\* without the two tables ends the component before a button is drawn
EditorRenders ==
  \/ stored.kind = "none"
  \/ /\ stored.kind = "doc"
     /\ Has(stored.doc, "IEGtoPEO") /\ Has(stored.doc, "PEOtoPLO")

\* what the editor holds when Save is pressed: its two tables, as loaded
\* from the defaults or after toggleMapping took PEO1 off IEG1, put PEO2 on
\* it and put PLO9 on PEO1
EditorStates ==
  { [IEGtoPEO |-> defaultIEGtoPEO, PEOtoPLO |-> defaultPEOtoPLO],
    [IEGtoPEO |-> [defaultIEGtoPEO EXCEPT !["IEG1"] = <<"PEO2">>],
     PEOtoPLO |-> [defaultPEOtoPLO EXCEPT !["PEO1"] = Append(@, "PLO9")]] }

\* Save Mapping button:
\* localStorage.setItem("USMMapping", JSON.stringify({IEGtoPEO, PEOtoPLO}))
saveMapping(e) ==
  /\ EditorRenders
  /\ stored' = [kind |-> "doc", doc |-> e]
  /\ UNCHANGED <<variant, fetched, loadLog, exported, alerted, v3Vars, selVars,
                 phase, mapping, optPEO, level, optBloom, bloom, optVerb, verb,
                 course, cloText, generatedList, shown>>

\* Reset Default button: localStorage.removeItem("USMMapping")
resetDefault ==
  /\ EditorRenders
  /\ stored' = NoStored
  /\ UNCHANGED <<variant, fetched, loadLog, exported, alerted, v3Vars, selVars,
                 phase, mapping, optPEO, level, optBloom, bloom, optVerb, verb,
                 course, cloText, generatedList, shown>>

\* the static generator with the operations of a session that reach the
\* list, started with an undecodable override and with none, beside the
\* editor: the objective select, the preview field, Generate, Save, bulk, the
\* Delete button of a row, Clear All and the two exports. The Bloom, level,
\* verb and course fields and the suggestion buttons are left at what the
\* load gave them
SpecFrame ==
  /\ InitOf({ <<"static", [ok |-> TRUE, doc |-> DocBare],
                [kind |-> "malformed", doc |-> EmptyMap]>>,
              <<"static", [ok |-> TRUE, doc |-> DocBare], NoStored>> })
  /\ [][ \/ StaticLoad
         \/ \E p \in {"PEO1"} : StaticPeoChange(p)
         \/ \E t \in TypedTexts : StaticEditPreview(t)
         \/ StaticGenerate
         \/ Len(generatedList) < SessionRecords /\ StaticSave
         \/ \E rows \in BulkInputs :
              Len(generatedList) + Len(rows) <= SessionRecords /\ StaticBulk(rows)
         \/ \E i \in 1..MaxRecords : StaticDelete(i)
         \/ \E yes \in BOOLEAN : StaticClearAll(yes)
         \/ StaticExportCSV \/ StaticExportJSON
         \/ \E e \in EditorStates : saveMapping(e)
         \/ resetDefault ]_vars

\* the session list of the static generator at its full length, on the load
\* path where Generate completes: the objective select, the preview field,
\* the first suggestion button, Generate, Save, bulk, the Delete button of
\* every row and Clear All. A bulk run of two labels fits behind a saved
\* record, and a Delete in the middle leaves a record on either side. The
\* exports, which write no list, are run at this length in SpecRows
SpecList ==
  /\ InitOf({ <<"static", [ok |-> TRUE, doc |-> DocBare],
                [kind |-> "malformed", doc |-> EmptyMap]>> })
  /\ [][ \/ StaticLoad
         \/ \E p \in {"PEO1"} : StaticPeoChange(p)
         \/ \E t \in TypedTexts : StaticEditPreview(t)
         \/ \E i \in {1} : StaticAssessClick(i)
         \/ StaticGenerate
         \/ StaticSave
         \/ \E rows \in BulkInputs : StaticBulk(rows)
         \/ \E i \in 1..MaxRecords : StaticDelete(i)
         \/ \E yes \in BOOLEAN : StaticClearAll(yes) ]_vars

\* the exports of the static generator with every handler that writes the
\* preview or the list: the objective select, typing in the preview, the
\* first suggestion button (which appends a line to the preview), Generate,
\* Save, bulk, the Delete button of every row and Clear All. Save is run on
\* lists shorter than SessionRecords and a bulk run of two labels takes the
\* list to its full length, so a Delete in the middle leaves a record on
\* either side of the row removed
SpecRows ==
  /\ InitOf({ <<"static", [ok |-> TRUE, doc |-> DocBare],
                [kind |-> "malformed", doc |-> EmptyMap]>> })
  /\ [][ \/ StaticLoad
         \/ \E p \in {"PEO1"} : StaticPeoChange(p)
         \/ \E t \in TypedTexts : StaticEditPreview(t)
         \/ \E i \in {1} : StaticAssessClick(i)
         \/ StaticGenerate
         \/ Len(generatedList) < SessionRecords /\ StaticSave
         \/ \E rows \in BulkInputs : StaticBulk(rows)
         \/ \E i \in 1..MaxRecords : StaticDelete(i)
         \/ \E yes \in BOOLEAN : StaticClearAll(yes)
         \/ StaticExportCSV \/ StaticExportJSON ]_vars

\* the preview and the list in the three drafts with a Save button that
\* clears the preview: the static generator started with an undecodable
\* override and with none, part_004 over its document and the linker on a
\* stored per-objective document, each with its objective select, every
\* control that writes its preview (Generate, bulk, the preview field where
\* it can be typed in, and the first suggestion button of the static
\* generator, which appends its method to the preview as every one of them
\* does), Save, the Delete button of a row and Clear
\* All. part_004 and the linker also export; the exports of the static
\* generator are run in SpecFrame and SpecRows. The Bloom, level, verb and
\* course fields are left at what the load gave them, and so are the
\* suggestion buttons of part_004 and the linker, which write no preview
SpecSave ==
  /\ InitOf({ <<"static", [ok |-> TRUE, doc |-> DocBare],
                [kind |-> "malformed", doc |-> EmptyMap]>>,
              <<"static", [ok |-> TRUE, doc |-> DocBare], NoStored>>,
              <<"v1", [ok |-> TRUE, doc |-> DocByPEO], NoStored>>,
              <<"linker", NoFetch, [kind |-> "doc", doc |-> DocByPEO]>> })
  /\ [][ \/ StaticLoad \/ V1Load \/ LinkerLoad
         \/ \E p \in {"PEO1"} :
              StaticPeoChange(p) \/ V1PeoChange(p) \/ LinkerPeoChange(p)
         \/ \E t \in TypedTexts : StaticEditPreview(t) \/ LinkerEditPreview(t)
         \/ \E i \in {1} : StaticAssessClick(i)
         \/ StaticGenerate \/ V1Generate \/ LinkerGenerate
         \/ Len(generatedList) < SessionRecords /\ StaticSave
         \/ Len(generatedList) < SessionRecords /\ V1Save
         \/ Len(generatedList) < SessionRecords /\ LinkerSave
         \/ \E rows \in BulkInputs :
              Len(generatedList) + Len(rows) <= SessionRecords /\ StaticBulk(rows)
         \/ \E rows \in BulkInputs :
              Len(generatedList) + Len(rows) <= SessionRecords /\ V1Bulk(rows)
         \/ \E rows \in BulkInputs :
              Len(generatedList) + Len(rows) <= SessionRecords /\ LinkerBulk(rows)
         \/ \E i \in 1..MaxRecords :
              StaticDelete(i) \/ V1Delete(i) \/ LinkerDelete(i)
         \/ \E yes \in BOOLEAN : StaticClearAll(yes) \/ V1ClearAll(yes)
         \/ LinkerClearAll
         \/ \E sheetjs \in BOOLEAN : V1ExportXLSX(sheetjs)
         \/ V1ExportJSON
         \/ LinkerExportXLSX \/ LinkerExportJSON ]_vars

\* selecting and generating: every control that the statement is made from
\* or that writes the preview, the list, bulk and export buttons apart. The
\* static generator runs on the load path where Generate completes and under
\* an override of level-independent statements, the React component with no
\* override, under one of level-scoped statements and under one naming a
\* sub-competency, part_004 over its
\* document, and the linker on the default tables and on a stored
\* per-objective document
SpecSynthesis ==
  /\ InitOf({ <<"static", [ok |-> TRUE, doc |-> DocBare],
                [kind |-> "malformed", doc |-> EmptyMap]>>,
              <<"static", [ok |-> TRUE, doc |-> DocBare],
                [kind |-> "doc", doc |-> OverrideStatements]>>,
              <<"react", NoFetch, NoStored>>,
              <<"react", NoFetch,
                [kind |-> "doc",
                 doc |-> [PLOstatements |->
                            ("Degree" :> ("PLO1" :> "Apply knowledge."))]]>>,
              <<"react", NoFetch, [kind |-> "doc", doc |-> OverrideSC]>>,
              <<"v1", [ok |-> TRUE, doc |-> DocByPEO], NoStored>>,
              <<"linker", NoFetch, NoStored>>,
              <<"linker", NoFetch, [kind |-> "doc", doc |-> DocByPEO]>> })
  /\ [][ \/ StaticLoad \/ ReactLoad \/ V1Load \/ LinkerLoad
         \/ \E p \in {"", "PEO1", "PEO3"} :
              StaticPeoChange(p) \/ ReactPeoChange(p) \/ V1PeoChange(p)
         \/ \E p \in {"", "PEO1", "PEO3", "PEOtoPLO"} : LinkerPeoChange(p)
         \/ \E b \in BloomInputs :
              \/ StaticBloomChange(b) \/ ReactBloomChange(b)
              \/ V1BloomChange(b) \/ LinkerBloomChange(b)
         \/ \E v \in VerbInputs \cup {" "} :
              \/ StaticVerbInput(v) \/ ReactVerbInput(v)
              \/ V1VerbInput(v) \/ LinkerVerbInput(v)
         \/ \E l \in LevelInputs : StaticLevelChange(l)
         \/ \E c \in CourseInputs : StaticCourseInput(c) \/ V1CourseInput(c)
         \/ \E i \in 1..MaxAppend :
              \/ StaticAssessClick(i) \/ ReactAssessClick(i)
              \/ V1AssessClick(i) \/ LinkerAssessClick(i)
         \/ \E t \in TypedTexts :
              StaticEditPreview(t) \/ ReactEditPreview(t) \/ LinkerEditPreview(t)
         \/ StaticGenerate \/ ReactGenerate \/ V1Generate \/ LinkerGenerate ]_vars

\* loading and the selection controls of the static generator, the React
\* component, part_004 and the two cascade pages, over the documents a
\* deployment can serve and localStorage can hold
SpecCascade ==
  /\ InitOf(({"static", "v2"} \X FetchResults \X StoredValues)
            \cup ({"v3"} \X FetchResults \X {NoStored})
            \cup ({"v1"} \X {[ok |-> TRUE, doc |-> DocByPEO], NoFetch} \X {NoStored})
            \cup ({"react"} \X {NoFetch} \X StoredValues))
  /\ [][StaticSelect \/ ReactSelect \/ V1Select \/ V2Next \/ V3Next]_vars

(***************************************************************************)
(* Properties of the mapping merge                                         *)
(***************************************************************************)
\* a table of a document, the empty map when the document has no such key
TableOf(doc, t) == IF Has(doc, t) THEN doc[t] ELSE EmptyMap

\* an entry of a table of a document, the empty list when there is none
EntryOf(doc, t, k) == IF Has(TableOf(doc, t), k) THEN TableOf(doc, t)[k] ELSE <<>>

\* the drafts that overlay localStorage.USMMapping on a fetched document
Merging == variant \in {"static", "v2"} /\ phase = "ready"

\* C9: when no override document is persisted, every mapping table of the
\* merged document equals the corresponding table of the base document
C9_MergeAbsentIsBase ==
  (Merging /\ stored.kind = "none")
    => \A t \in Tables : /\ TableOf(mapping, t) = TableOf(fetched.doc, t)
                         /\ Has(fetched.doc, t) => Has(mapping, t)

C9_Witness ==
  /\ Merging /\ variant = "static" /\ stored.kind = "none"
  /\ Has(fetched.doc, "SCmapping") /\ fetched.doc.SCmapping # EmptyMap
  /\ mapping.SCmapping = fetched.doc.SCmapping
  /\ mapping.PEOtoPLO = fetched.doc.PEOtoPLO

\* C10: the merge is table-level replacement: a table the override has is the
\* override's table verbatim, so an objective only the base table maps is gone,
\* and a table the override lacks is the base table
C10_MergeReplacesTables ==
  (Merging /\ stored.kind = "doc")
    => \A t \in Tables :
         IF Has(stored.doc, t)
         THEN Has(mapping, t) /\ mapping[t] = stored.doc[t]
         ELSE /\ TableOf(mapping, t) = TableOf(fetched.doc, t)
              /\ Has(fetched.doc, t) => Has(mapping, t)

C10_Witness ==
  /\ Merging /\ variant = "v2" /\ stored.doc = OverridePartial /\ stored.kind = "doc"
  /\ Has(fetched.doc.PEOtoPLO, "PEO1") /\ ~Has(mapping.PEOtoPLO, "PEO1")
  /\ mapping.PEOtoPLO = OverridePartial.PEOtoPLO
  /\ mapping.IEGtoPEO = fetched.doc.IEGtoPEO

(***************************************************************************)
(* Properties of the selection cascade                                     *)
(***************************************************************************)
\* the step selects an objective
ObjectiveSelected == selectedPEO' # selectedPEO /\ selectedPEO' # ""

\* the step selects an attribute
AttributeSelected == selIEG' # selIEG /\ selIEG' # ""

\* the step sets the Bloom level from a loaded page
BloomSet == phase = "ready" /\ bloom' # bloom /\ bloom' \in Range(BloomOrder)

\* the outcome candidates on display: the cascade's option list, or the
\* rendered list of the objective-first generators
OutcomeCandidates == IF variant = "v3" THEN optPLO ELSE selectedPLOs

\* the outcomes selected
OutcomesSelected ==
  IF variant = "v3" THEN (IF selPLO = "" THEN <<>> ELSE <<selPLO>>) ELSE selectedPLOs

\* a verb an operator can have chosen
ChosenVerbs ==
  UNION {Range(BLOOM_VERBS[b]) : b \in DOMAIN BLOOM_VERBS} \cup (VerbInputs \ {""})

\* C3: selecting objective p makes the outcome candidate list
\* ObjectiveToOutcome[p] in table order (empty when p has no entry) and selects
\* that whole list
C3_SelectObjectivePreselectsAll ==
  [][(variant \in {"static", "react", "v3"} /\ ObjectiveSelected)
       => /\ OutcomeCandidates' = EntryOf(mapping, "PEOtoPLO", selectedPEO')
          /\ OutcomesSelected' = EntryOf(mapping, "PEOtoPLO", selectedPEO')]_vars

\* C4: in the cascade the objective candidates are AttributeToObjective[a] of
\* the fetched document for the selected attribute a, empty when a has no entry
C4_SelectAttributeCandidates ==
  (variant = "v3" /\ selIEG # "")
    => optPEO = EntryOf(IF fetched.ok THEN fetched.doc ELSE EmptyMap, "IEGtoPEO", selIEG)

C4_Witness ==
  /\ variant = "v3" /\ selIEG = "IEG3" /\ optPEO = <<"PEO3", "PEO1">>
  /\ selectedPEO = ""

\* C5: after an attribute is selected, the objective, the outcome, the Bloom
\* level and the verb are cleared
C5_SelectAttributeClears ==
  [][(variant = "v3" /\ AttributeSelected)
       => /\ selectedPEO' = "" /\ selPLO' = ""
          /\ bloom' \notin Range(BloomOrder)
          /\ verb' \notin ChosenVerbs]_vars

\* C6: after an objective is selected, the Bloom level is cleared (back to no
\* level, or to the level the page starts with) and the verb, an override the
\* operator typed included, is cleared
C6_SelectObjectiveClears ==
  [][(variant \in {"static", "v3"} /\ ObjectiveSelected)
       => /\ bloom' \notin Range(BloomOrder) \ {"Apply"}
          /\ verb' \notin ChosenVerbs]_vars

\* the ids on display in the viewer's output panel
ShownIds ==
  IF variant = "v2" /\ selectedPEO # ""
  THEN <<shown.peo, shown.iegList, MapSeq(shown.plos, LAMBDA r : r.id)>>
  ELSE <<>>

\* C7: changing the level leaves the selected attribute, objective and outcome
\* ids as they are, on the controls and in the viewer's output panel
C7_LevelKeepsSelection ==
  [][(level' # level)
       => /\ selIEG' = selIEG /\ selectedPEO' = selectedPEO /\ selPLO' = selPLO
          /\ selectedPLOs' = selectedPLOs /\ selectedIEGs' = selectedIEGs
          /\ ShownIds' = ShownIds]_vars

C7_Witness ==
  /\ variant = "v2" /\ selectedPEO = "PEO1" /\ level = "Master"
  /\ shown.level = "Master" /\ shown.peo = "PEO1"
  /\ shown.peoStatement = "(no PEO statement)"
  /\ Scoped(mapping, "PEOstatements", "Degree", "PEO1") # ""
  /\ shown.plos # <<>>

\* C8: setting the Bloom level clears the verb chosen before, and the verb
\* suggestions on display are the vocabulary of the new level
C8_SetBloomClearsVerb ==
  [][(variant \in {"static", "v1", "v3"} /\ BloomSet)
       => /\ verb' \notin ChosenVerbs
          /\ variant = "v1" => optVerb' = BLOOM_VERBS[bloom']]_vars

(***************************************************************************)
(* Properties of generation and of the session list                        *)
(***************************************************************************)
\* C1: a Generate click while no outcome is selected produces nothing: the
\* preview text, the session list and the selection stay as they were
C1_GenerateWithoutOutcomesRefused ==
  [][((StaticGenerate \/ ReactGenerate) /\ selectedPLOs = <<>>)
       => UNCHANGED <<cloText, generatedList, selectedPEO, selectedPLOs,
                      selectedIEGs>>]_vars

\* a text the generator synthesized, as opposed to one typed into the preview
Synthesized(clo) == clo # <<>> /\ clo[1] = "Upon successful completion of "

\* C2: every record of the session list names at least one outcome, and each
\* outcome it names is mapped to the record's objective by the merged document;
\* stated for the records of the static generator that hold a synthesized text
C2_RecordsReferenceMappedOutcomes ==
  \A i \in 1..Len(generatedList) :
    (variant = "static" /\ Synthesized(generatedList[i].clo))
      => /\ generatedList[i].plos # <<>>
         /\ \A id \in Range(generatedList[i].plos) :
              Includes(EntryOf(mapping, "PEOtoPLO", generatedList[i].peo), id)

(***************************************************************************)
(* Properties of load failures                                             *)
(***************************************************************************)
\* the document a draft falls back on: the fetched one, or for the React
\* component the defaults of usmMapping.js
BaseOf == IF variant = "react" THEN usePEOPLOIEG(NoStored) ELSE fetched.doc

\* C11: when localStorage.USMMapping holds text that does not decode, the load
\* still ends with a usable session: every table of the merged document is
\* the base table, the objective dropdown lists the objectives of the base
\* document, and a warning was written
C11_MalformedOverrideFallsBack ==
  (/\ variant \in {"static", "v2", "react"}
   /\ stored.kind = "malformed"
   /\ variant = "react" \/ fetched.ok
   /\ phase # "loading")
    => /\ phase = "ready"
       /\ \A t \in Tables : TableOf(mapping, t) = TableOf(BaseOf, t)
       /\ optPEO = KeysIn(PEOOrder, TableOf(BaseOf, "PEOtoPLO"))
       /\ loadLog # << >>

\* what the page shows of a failed load
PageNotices == SelectSeq(loadLog, LAMBDA e : e.to = "page")

\* C12: after a failed fetch of the static generator the store stays
\* unavailable: there is no mapping and no objective to choose, every lookup
\* answers the empty string, a Generate click neither throws nor writes a
\* text, the page shows exactly one failure notice, and no later step loads
\* again or adds a notice
C12_LoadFailureStaysUnavailable ==
  /\ []((variant = "static" /\ phase = "failed")
          => /\ IsNull(mapping) /\ optPEO = << >>
             /\ selectedPEO = "" /\ selectedPLOs = << >> /\ selectedIEGs = << >>
             /\ \A id \in {"PLO1", "PLO9"} :
                  getSC(id) = "" /\ getVBE(id) = "" /\ getIndicator(id) = ""
             /\ \A l \in Range(Levels) : getPEOStatement("PEO1", l) = ""
             /\ GenerateRefused /\ ~GenerateThrows
             /\ Len(PageNotices) = 1)
  /\ [][(variant = "static" /\ phase = "failed")
          => /\ UNCHANGED <<phase, mapping, optPEO, loadLog>>
             /\ StaticGenerate => UNCHANGED <<cloText, generatedList>>]_vars

\* a failed load after which a typed text was saved under a typed course label
C12_Witness ==
  /\ variant = "static" /\ phase = "failed" /\ ~fetched.ok
  /\ Len(PageNotices) = 1
  /\ course = "CS101"
  /\ Len(generatedList) = 1
  /\ generatedList[1].peo = "" /\ generatedList[1].plos = << >>
  /\ generatedList[1].sc = << >>

(***************************************************************************)
(* Properties of the synthesized statement                                 *)
(***************************************************************************)
\* the text holds the pieces one after the other
Contains(text, pieces) ==
  \E i \in 1..Len(text) :
    i + Len(pieces) - 1 <= Len(text) /\ SubSeq(text, i, i + Len(pieces) - 1) = pieces

\* the selection of the worked example: the served tables map IEG1 to PEO1
\* and PEO1 to PLO1 and PLO2, PEO1 is selected, the Bloom level is Apply, no
\* verb is typed and the course label is CS101
WorkedExample ==
  /\ variant = "static" /\ phase = "ready"
  /\ fetched.ok /\ fetched.doc = DocFull /\ stored.kind = "none"
  /\ selectedPEO = "PEO1" /\ selectedPLOs = <<"PLO1", "PLO2">>
  /\ level = "Degree" /\ bloom = "Apply" /\ verb = "" /\ course = "CS101"

\* C13: in the worked example synthesis completes (generateCLO does not
\* throw) and its statement for CS101 has the verb "apply" and names
\* "PLO1 (SC: SC4)", the statement "Apply knowledge." and the attribute IEG1
C13_WorkedExampleSynthesizes ==
  WorkedExample
    => /\ ~GenerateRefused /\ ~GenerateThrows
       /\ LET text == generateCLO(course)
          IN /\ Contains(text, <<"CS101", ", students will be able to ", "apply">>)
             /\ Contains(text, <<"PLO1", " (SC: ", "SC4", ")">>)
             /\ Contains(text, <<"Apply knowledge.">>)
             /\ Contains(text, <<"IEG1">>)

\* the position of the first piece of the text equal to `piece`, 0 without one
PieceAt(text, piece) ==
  IF Includes(text, piece)
  THEN CHOOSE i \in 1..Len(text) :
         text[i] = piece /\ \A j \in 1..(i - 1) : text[j] # piece
  ELSE 0

\* the marks all occur in the text, in this order
InOrder(text, marks) ==
  \A k \in 1..Len(marks) :
    /\ PieceAt(text, marks[k]) > 0
    /\ k > 1 => PieceAt(text, marks[k - 1]) < PieceAt(text, marks[k])

\* the statements the merged document has for the outcomes of a record
StatementsOf(g) ==
  IF variant = "react"
  THEN SelectSeq(MapSeq(g.plos, LAMBDA p : Flat(mapping, "PLOstatements", p)),
                 LAMBDA x : x # "")
  ELSE Flatten(MapSeq(g.plos, LAMBDA p :
         SelectSeq(MapSeq(Levels, LAMBDA l : Scoped(mapping, "PLOstatements", l, p)),
                   LAMBDA x : x # "")))

\* the attributes the merged document maps to the objective of a record
AttributesOf(g) == IF Has(g, "iegs") THEN g.iegs ELSE deriveIEGs(mapping, g.peo)

\* the records of the list that hold a synthesized statement
SynthesizedRecords ==
  {i \in 1..Len(generatedList) : Synthesized(generatedList[i].clo)}

\* C14: every synthesized statement has the six clauses in order
\* (outcome list, statements, alignment, attributes, domains, indicators),
\* and a clause without data reads N/A
C14_SixClausesOrNA ==
  \A i \in SynthesizedRecords :
    LET g == generatedList[i]
    IN /\ InOrder(g.clo, <<"Upon successful completion of ", " competencies related to ",
                           "PLO statements: ", " This aligns to ",
                           " and develops graduate attributes: ", ". VBE: ",
                           ". Indicators: ">>)
       /\ StatementsOf(g) = << >> => Contains(g.clo, <<"PLO statements: ", "N/A">>)
       /\ AttributesOf(g) = << >>
            => Contains(g.clo, <<" and develops graduate attributes: ", "N/A">>)

\* C15: every record of the session list that holds a synthesized statement
\* carries the structured fields the statement was built from (objective,
\* outcomes, attributes, Bloom level, verb, assessment methods, creation
\* time, and the level where the generator has one), and the verb it stores
\* is the verb of its statement
C15_RecordsCarryTheirFields ==
  \A i \in SynthesizedRecords :
    LET g == generatedList[i]
    IN /\ {"peo", "plos", "iegs", "bloom", "verb", "assessment"} \subseteq DOMAIN g
       /\ Has(g, "savedAt") \/ Has(g, "timestamp")
       /\ variant = "static" => Has(g, "level")
       /\ \/ Contains(g.clo, <<", students will be able to ", g.verb>>)
          \/ Contains(g.clo, <<", the student will be able to ", g.verb>>)

\* C16: a bulk run of the static generator over n course labels, with an
\* outcome selected, appends n records in label order; the i-th has the i-th
\* label as its course, the current objective and outcomes, and the
\* statement generateCLO gives for that label
C16_BulkAppendsOnePerLabel ==
  (variant = "static" /\ phase = "ready" /\ selectedPLOs # << >>)
    => \A rows \in BulkInputs :
         LET r == bulkRows(rows, cloText, generatedList)
             n == Len(generatedList)
         IN /\ ~r.threw
            /\ Len(r.list) = n + Len(rows)
            /\ SubSeq(r.list, 1, n) = generatedList
            /\ \A i \in 1..Len(rows) :
                 /\ r.list[n + i].course = rows[i]
                 /\ r.list[n + i].peo = selectedPEO
                 /\ r.list[n + i].plos = selectedPLOs
                 /\ r.list[n + i].clo = generateCLO(rows[i])

(***************************************************************************)
(* Properties of export                                                    *)
(***************************************************************************)
\* the first cell of each record after the header of a CSV text, without its
\* quotes; a line break between the quotes of a cell is part of the cell and
\* ends no record
NumberCells(content) ==
  LET quotes == {j \in 1..Len(content) : content[j] = "\""}
      quoted(i) == Cardinality({j \in quotes : j < i}) % 2 = 1
      at == SelectSeq([i \in 1..Len(content) |-> i],
                      LAMBDA i : content[i] = "\n" /\ ~quoted(i))
  IN [k \in 1..Len(at) |-> content[at[k] + 2]]

\* "1", ..., as many as there are records
Numbered(n) == [i \in 1..n |-> <<"1", "2", "3", "4", "5", "6", "7", "8", "9">>[i]]

\* C17: the rows the static generator exports are one per record, in list
\* order and numbered 1..n; deleting the record at position k leaves rows
\* that are the old rows without the k-th, renumbered 1..n-1; and the CSV
\* file of an export click has its records numbered 1..n for the list as it
\* is at the click, also when the text of a record spans several lines
C17_RowsNumberedInListOrder ==
  /\ [](variant = "static"
          => LET rows == toRows(generatedList)
             IN /\ Len(rows) = Len(generatedList)
                /\ \A i \in 1..Len(rows) :
                     /\ rows[i].No = i
                     /\ rows[i].Course = Txt(generatedList[i].course)
                     /\ rows[i].CLO = generatedList[i].clo)
  /\ [][\A k \in 1..Len(generatedList) :
          StaticDelete(k)
            => LET before == toRows(generatedList)
                   after  == toRows(generatedList')
               IN /\ Len(after) = Len(before) - 1
                  /\ \A i \in 1..Len(after) :
                       after[i] = [before[IF i < k THEN i ELSE i + 1] EXCEPT !.No = i]]_vars
  /\ [][(StaticExportCSV /\ generatedList # << >>)
          => /\ Len(exported') = 1
             /\ NumberCells(exported'[1].content) = Numbered(Len(generatedList))]_vars

\* the CSV file exported after the middle one of three records was deleted:
\* two records, numbered 1 and 2, for the saved record that was first, whose
\* text holds the line a suggestion button appended, and the bulk record that
\* was third
C17_Witness ==
  /\ variant = "static"
  /\ Len(generatedList) = 2
  /\ Includes(generatedList[1].clo, "\n") /\ generatedList[2].course = "CS102"
  /\ Len(exported) = 1 /\ exported[1].mime = "text/csv"
  /\ exported[1].content = arrayToCSV(toRows(generatedList))
  /\ NumberCells(exported[1].content) = <<"1", "2">>

\* C18: an export click, tabular or structured, while the session list is
\* empty hands no file to the browser and raises a notice; with a record in
\* the list it hands over one file
C18_EmptyExportWritesNothing ==
  [][(StaticExportCSV \/ StaticExportJSON \/ ReactExportXLSX \/ ReactExportJSON)
       => IF generatedList = << >>
          THEN exported' = << >> /\ alerted' # ""
          ELSE Len(exported') = 1]_vars

(***************************************************************************)
(* Properties of the lookups                                               *)
(***************************************************************************)
\* C19: with any merged document, a lookup by an id the document does not
\* know answers the absent value (shown as the fixed placeholder) instead of
\* raising: sub-competency, domain, indicator and statement of an outcome,
\* statement, outcomes and attributes of an objective, and the panel built
\* for an objective; and with an objective selected, synthesis completes
C19_NoLookupRaises ==
  Merging
    => /\ getSC("PLO9") = "" /\ getVBE("PLO9") = "" /\ getIndicator("PLO9") = ""
       /\ \A l \in Range(Levels) :
            /\ getPEOStatement("PEO9", l) = ""
            /\ showMapping(mapping, "PEO9", l) =
                 [peo |-> "PEO9", level |-> l, peoStatement |-> "(no PEO statement)",
                  iegList |-> << >>, plos |-> << >>]
       /\ derivePLOs(mapping, "PEO9") = << >> /\ deriveIEGs(mapping, "PEO9") = << >>
       /\ \A i \in 1..Len(selectedPLOs) :
            LET shownAs == showMapping(mapping, selectedPEO, level).plos[i]
            IN /\ getSC(selectedPLOs[i]) = "" => shownAs.sc = "-"
               /\ getVBE(selectedPLOs[i]) = "" => shownAs.vbe = "-"
               /\ getIndicator(selectedPLOs[i]) = "" => shownAs.indicator = "-"
       /\ variant = "static" => ~GenerateThrows

(***************************************************************************)
(* Properties of the merge, continued                                      *)
(***************************************************************************)
\* the tables the override document holds without any key
EmptyOverrideTables ==
  {t \in Tables : Has(stored.doc, t) /\ stored.doc[t] = EmptyMap}

\* C20 as stated: a table the override document holds empty leaves the base
\* table in the merged document
C20_EmptyOverrideTableKeepsBase ==
  (Merging /\ stored.kind = "doc")
    => \A t \in EmptyOverrideTables : TableOf(mapping, t) = TableOf(fetched.doc, t)

\* C20, amended: a table the override document holds, empty or not, is the
\* merged table: an empty override table empties the merged table, whatever
\* the base table holds, and what is derived from it is empty
C20_EmptyOverrideTableReplaces ==
  (Merging /\ stored.kind = "doc")
    => \A t \in EmptyOverrideTables :
         /\ Has(mapping, t) /\ mapping[t] = EmptyMap
         /\ (t = "IEGtoPEO" /\ variant = "static") => selectedIEGs = << >>
         /\ (t = "IEGtoPEO" /\ variant = "v2" /\ selectedPEO # "") => shown.iegList = << >>

\* the static generator over a base document that maps attributes, merged
\* with an override whose attribute table is empty: no attribute is derived
\* for the selected objective
C20_Witness ==
  /\ Merging /\ variant = "static" /\ stored.kind = "doc"
  /\ "IEGtoPEO" \in EmptyOverrideTables
  /\ fetched.doc.IEGtoPEO # EmptyMap
  /\ mapping.IEGtoPEO = EmptyMap
  /\ selectedPEO = "PEO1" /\ selectedIEGs = << >>

\* C21: after a load that succeeded, with no override, with a decodable one
\* or with an undecodable one, the merged document of the static generator
\* and of the React component holds every mapping table, as a map: a table
\* neither the base nor the override has is there as the empty map
C21_EveryTableIsAMap ==
  (variant \in {"static", "react"} /\ phase = "ready")
    => \A t \in Tables :
         /\ Has(mapping, t)
         /\ (~Has(BaseOf, t) /\ ~Has(stored.doc, t)) => mapping[t] = EmptyMap

\* C22: once the load has merged the mapping, no operation of the generator
\* (selecting, generating, saving, bulk generating, deleting, clearing,
\* exporting) changes the merged mapping or writes the stored override: the
\* override changes only when the editor saves or resets it, and the mapping
\* in use stays what the load made it
C22_MappingFrozenAfterLoad ==
  [][ (variant = "static" /\ phase = "ready")
        => /\ mapping' = mapping
           /\ phase' = "ready"
           /\ (stored' # stored =>
                 \/ \E e \in EditorStates : saveMapping(e)
                 \/ resetDefault) ]_vars

\* the editor saved an override after the load, the session went on to
\* select, put records in the list and export, and the mapping in use is
\* not the merge of what is stored now
C22_Witness ==
  /\ variant = "static" /\ phase = "ready"
  /\ stored.kind = "doc"
  /\ mapping # loadMapping(fetched.doc, stored)
  /\ selectedPEO # "" /\ generatedList # <<>> /\ exported # <<>>

\* C23: the session list changes only by growing at its end with the records
\* already there untouched (Save appends one, bulk one per label), by losing
\* exactly the record at the position of the Delete pressed with the others
\* kept in order, or by being emptied by a confirmed clear; a declined clear
\* and every other operation leave it as it is
C23_ListChangesOnlyAtItsEnds ==
  [][ variant = "static" =>
        LET old == generatedList
            new == generatedList'
            without(i) == [j \in 1..(Len(old) - 1) |-> IF j < i THEN old[j] ELSE old[j + 1]]
        IN /\ \/ new = old
              \/ Len(new) > Len(old) /\ SubSeq(new, 1, Len(old)) = old
              \/ \E i \in 1..Len(old) : new = without(i)
              \/ new = <<>>
           /\ StaticSave =>
                \/ new = old
                \/ Len(new) = Len(old) + 1 /\ SubSeq(new, 1, Len(old)) = old
           /\ \A rows \in BulkInputs :
                StaticBulk(rows) =>
                  /\ Len(new) \in Len(old)..(Len(old) + Len(rows))
                  /\ SubSeq(new, 1, Len(old)) = old
           /\ \A i \in 1..Len(old) : StaticDelete(i) => new = without(i)
           /\ StaticClearAll(TRUE) => new = <<>>
           /\ StaticClearAll(FALSE) => new = old
           /\ Len(new) < Len(old) =>
                \/ \E i \in 1..Len(old) : StaticDelete(i)
                \/ StaticClearAll(TRUE)
           /\ Len(new) > Len(old) =>
                \/ StaticSave
                \/ \E rows \in BulkInputs : StaticBulk(rows) ]_vars

\* a bulk run of two labels appended behind a saved record, and the Delete
\* button of the middle row then took the first bulk record out: the saved
\* record and the second bulk record remain, in this order
C23_Witness ==
  /\ variant = "static"
  /\ Len(generatedList) = 2
  /\ generatedList[1].course = "[Course Name]"
  /\ generatedList[2].course = "CS102"

\* C24: in the cascading page no handler is suspended once the load is over,
\* so the verb candidates on the page are those of the Bloom level selected
\* now for the outcome selected now, never those requested for an earlier
\* selection
C24_CandidatesBelongToSelection ==
  (variant = "v3" /\ phase = "ready")
    => \A b \in DOMAIN BLOOM_VERBS :
         optVerb \in { r.list : r \in { x \in VerbsReplies(b) : x.ok } }
           => /\ bloom = b
              /\ selPLO # ""
              /\ pending \subseteq {[kind |-> "meta", plo |-> selPLO, bloom |-> b]}

\* the verb a statement is to carry: the override when one was supplied,
\* else the first candidate of the Bloom level, else "demonstrate"
VerbFor(override, b) ==
  IF override # "" THEN override
  ELSE IF Has(BLOOM_VERBS, b) /\ BLOOM_VERBS[b] # <<>> THEN BLOOM_VERBS[b][1]
  ELSE "demonstrate"

\* C25: the verb of the statement Generate writes is the override verb when
\* one is supplied (the static generator reads the field trimmed, so an
\* override of blanks is no override there), otherwise the first verb of the
\* candidates of the selected Bloom level, otherwise "demonstrate"
C25_VerbOfTheStatement ==
  [][ /\ (StaticGenerate /\ ~GenerateRefused /\ ~GenerateThrows)
          => cloText'[4] = VerbFor(IF IsBlank(verb) THEN "" ELSE verb, bloom)
      /\ (ReactGenerate /\ ~R_GenerateRefused) => cloText'[4] = VerbFor(verb, bloom)
      /\ V1Generate => cloText'[4] = VerbFor(verb, bloom)
      /\ (LinkerGenerate /\ selectedPEO # "")
          => cloText'[4] = VerbFor(verb, bloom) ]_vars

\* a statement whose verb is the override although the Bloom level has
\* candidates of its own
C25_Witness ==
  /\ phase = "ready" /\ verb = "design" /\ bloom = "Apply"
  /\ Len(cloText) > 4 /\ cloText[4] = "design"

\* the statement of an outcome at a level: the level-scoped entry when
\* there is one, otherwise the level-independent entry, otherwise none
StatementAt(lvl, plo) ==
  OrStr(Scoped(mapping, "PLOstatements", lvl, plo), Flat(mapping, "PLOstatements", plo))

\* C26: whichever shape the merged document gives PLOstatements, Generate
\* completes for a selection with outcomes and the statement of each selected
\* outcome that has one (level-scoped first, level-independent otherwise) is
\* in the synthesized text
C26_StatementOfEitherShape ==
  (variant \in {"static", "react"} /\ phase = "ready" /\ selectedPLOs # <<>>)
    => \A plo \in Range(selectedPLOs) :
         StatementAt(level, plo) # ""
           => IF variant = "static"
              THEN /\ ~GenerateThrows
                   /\ Contains(generateCLO(course), <<StatementAt(level, plo)>>)
              ELSE Contains(R_generateCLO(course), <<StatementAt(level, plo)>>)

\* the per-outcome method lists of a table, concatenated in outcome order,
\* first occurrences kept, the first six
SuggestionsFor(table, plos) ==
  Slice(Dedupe(Flatten(MapSeq(plos,
          LAMBDA p : IF Has(table, p) THEN table[p] ELSE <<>>))), 6)

\* C27: the assessment methods suggested for the selected outcomes are the
\* method lists of those outcomes concatenated in outcome order, without
\* repeats, cut to the first 6; an outcome with no list adds nothing
C27_SuggestionsCutAtSix ==
  phase = "ready"
    => /\ variant = "static"
            => renderAssessmentSuggestions(selectedPLOs)
                 = SuggestionsFor(ASSESSMENT_SUGGESTIONS, selectedPLOs)
       /\ variant = "react"
            => assessment = SuggestionsFor(R_ASSESSMENT_SUGGESTIONS, selectedPLOs)
       /\ variant = "v1"
            => updateAssessmentSuggestions(selectedPLOs)
                 = SuggestionsFor(ASSESSMENT_SUGGESTIONS, selectedPLOs)

\* the outcomes the merged document maps the objective to, in the shape the
\* draft reads
ObjectiveToOutcome(peo) ==
  IF peo = "" \/ IsNull(mapping) THEN <<>>
  ELSE IF variant \in {"v1", "linker"}
       THEN (IF Has(mapping, peo) /\ Has(mapping[peo], "PLO") THEN mapping[peo].PLO ELSE <<>>)
       ELSE (IF Has(mapping, "PEOtoPLO") /\ Has(mapping.PEOtoPLO, peo)
             THEN mapping.PEOtoPLO[peo] ELSE <<>>)

\* C28: after a load that succeeded, the selected outcomes are among those
\* the merged document maps the selected objective to, and none is selected
\* while no objective is, also after the operator has gone back to the
\* empty choice
C28_OutcomesWithinObjective ==
  (variant \in {"static", "react", "v1", "linker"} /\ phase = "ready")
    => /\ Range(selectedPLOs) \subseteq Range(ObjectiveToOutcome(selectedPEO))
       /\ selectedPEO = "" => selectedPLOs = <<>>

\* the statement of a record names the objective and the outcomes the
\* record stores: its objective clause and its outcome clause are the ones
\* generateCLO writes for these ids
NamesItsFields(g) ==
  LET named == [k \in 1..Len(g.plos) |->
                  IF g.sc[k] # "" THEN <<g.plos[k], " (SC: ", g.sc[k], ")">>
                  ELSE <<g.plos[k]>>]
  IN /\ Contains(g.clo, <<" This aligns to ", OrStr(g.peo, "the programme PEO(s)")>>)
     /\ Contains(g.clo, <<" competencies related to ">> \o Join(named, ", ") \o <<". ">>)

\* C29: every record of the session list whose statement Generate wrote
\* (it holds the template's alignment clause) carries a statement synthesized
\* from the objective and the outcomes stored beside it, also when the
\* objective was changed between Generate and Save
C29_RecordTextMatchesItsIds ==
  variant = "static"
    => \A i \in 1..Len(generatedList) :
         Contains(generatedList[i].clo, <<" This aligns to ">>)
           => NamesItsFields(generatedList[i])

\* C30: Save empties the preview, so a second Save with no Generate between
\* the two finds it empty; Save over an empty preview appends nothing and
\* leaves the list as it is; otherwise it appends one record; and an empty
\* preview gets a text again only from Generate, the bulk loop or typing
C30_SaveClearsThePreview ==
  [][ /\ (StaticSave \/ V1Save \/ LinkerSave)
          => /\ SaveRefused(cloText')
             /\ IF SaveRefused(cloText)
                THEN generatedList' = generatedList
                ELSE /\ Len(generatedList') = Len(generatedList) + 1
                     /\ SubSeq(generatedList', 1, Len(generatedList)) = generatedList
                     /\ generatedList'[Len(generatedList')].clo = Trim(cloText)
      /\ (SaveRefused(cloText) /\ ~SaveRefused(cloText'))
          => \/ StaticGenerate \/ V1Generate \/ LinkerGenerate
             \/ \E rows \in BulkInputs :
                  StaticBulk(rows) \/ V1Bulk(rows) \/ LinkerBulk(rows)
             \/ \E t \in TypedTexts :
                  StaticEditPreview(t) \/ LinkerEditPreview(t) ]_vars

\* C30, amended: Save empties the preview; Save over an empty preview appends
\* nothing and leaves the list as it is; otherwise it appends one record
\* holding the text of the preview; and an empty preview gets a text again
\* from Generate, from the bulk loop, from typing, or, in the static
\* generator, from a suggestion button, which appends its method to the
\* preview: only with none of these between two Saves does the second one
\* append nothing
C30_SaveClearsUntilRefilled ==
  [][ /\ (StaticSave \/ V1Save \/ LinkerSave)
          => /\ SaveRefused(cloText')
             /\ IF SaveRefused(cloText)
                THEN generatedList' = generatedList
                ELSE /\ Len(generatedList') = Len(generatedList) + 1
                     /\ SubSeq(generatedList', 1, Len(generatedList)) = generatedList
                     /\ generatedList'[Len(generatedList')].clo = Trim(cloText)
      /\ (SaveRefused(cloText) /\ ~SaveRefused(cloText'))
          => \/ StaticGenerate \/ V1Generate \/ LinkerGenerate
             \/ \E rows \in BulkInputs :
                  StaticBulk(rows) \/ V1Bulk(rows) \/ LinkerBulk(rows)
             \/ \E t \in TypedTexts :
                  StaticEditPreview(t) \/ LinkerEditPreview(t)
             \/ \E i \in 1..Len(renderAssessmentSuggestions(selectedPLOs)) :
                  StaticAssessClick(i)
      /\ \A i \in 1..Len(renderAssessmentSuggestions(selectedPLOs)) :
           (StaticAssessClick(i) /\ SaveRefused(cloText))
             => cloText' = <<"Assessment: ", renderAssessmentSuggestions(selectedPLOs)[i]>> ]_vars

\* a statement was saved from the preview, a suggestion button put its
\* method in the emptied preview, and a second Save, with no Generate and no
\* typing after the first, appended that text as a second record
C30_Witness ==
  /\ variant = "static" /\ phase = "ready"
  /\ Len(generatedList) = 2
  /\ Includes(generatedList[1].clo, " This aligns to ")
  /\ Len(generatedList[2].clo) = 2 /\ generatedList[2].clo[1] = "Assessment: "
  /\ cloText = <<>>

====
